---- MODULE Spec2Model ----
(***************************************************************************)
(* City-Events-Calculator: the spreadsheet-formula evaluation and          *)
(* recalculation engine of src/app.py and src/app_0_geo.py.                *)
(*                                                                         *)
(* The model follows one calculator session: the value store built from    *)
(* the template, the "Calculate" handler writing the user's inputs, and    *)
(* recalc_block evaluating the formula cells pass by pass.  Formulas are   *)
(* kept in two forms: their text (what ws[addr].value holds) and the       *)
(* expression tree Python's eval builds from the transformed text.         *)
(***************************************************************************)
EXTENDS Integers, Sequences, FiniteSets, TLC

(***************************************************************************)
(* Bounds of the model.                                                    *)
(***************************************************************************)
\* Rows of the scaled-down template sheet.
NRows == 6
\* Columns of the scaled-down template sheet (A..E).
NCols == 5
\* Clicks on "Calculate" in one session.
MaxCalls == 2

(***************************************************************************)
(* Program constants.                                                      *)
(***************************************************************************)
\* recalc_block(..., max_iters: int = 20) in app.py.
MaxItersApp == 20
\* recalc_block(..., max_iters: int = 12) in app_0_geo.py.
MaxItersGeo == 12

(***************************************************************************)
(* Python values.  Every value is a record of the same shape:              *)
(*   t = "none"  None                                                      *)
(*   t = "int"   the integer n                                             *)
(*   t = "float" the float n/d (d > 0, lowest terms)                       *)
(*   t = "nan"   float('nan')                                              *)
(*   t = "bool"  True (n = 1) or False (n = 0)                             *)
(*   t = "str"   the text s                                                *)
(*   t = "err"   not a value: the evaluation raised an exception           *)
(* Floats are exact rationals: rounding of binary floating point is not    *)
(* modelled.                                                               *)
(***************************************************************************)
None == [t |-> "none", n |-> 0, d |-> 1, s |-> ""]
IntV(i) == [t |-> "int", n |-> i, d |-> 1, s |-> ""]
BoolV(b) == [t |-> "bool", n |-> IF b THEN 1 ELSE 0, d |-> 1, s |-> ""]
StrV(x) == [t |-> "str", n |-> 0, d |-> 1, s |-> x]
NaN == [t |-> "nan", n |-> 0, d |-> 1, s |-> ""]
Err == [t |-> "err", n |-> 0, d |-> 1, s |-> ""]
\* An int beyond the range of float (10**400): Python's ints are unbounded,
\* and float(x) raises OverflowError for such an int.
HugeInt == [t |-> "bigint", n |-> 0, d |-> 1, s |-> "10**400"]
\* A float so large (1e300) that adding any number of the model to it gives
\* the same float back.  Only its addition and comparison are modelled.
BigFloat == [t |-> "bigfloat", n |-> 0, d |-> 1, s |-> "1e300"]

Abs(i) == IF i < 0 THEN -i ELSE i

RECURSIVE Gcd(_, _)
Gcd(a, b) == IF b = 0 THEN a ELSE Gcd(b, a % b)

\* The float num/den, den # 0.
FloatV(num, den) ==
    LET sg == IF den < 0 THEN -1 ELSE 1
        g == Gcd(Abs(num), Abs(den))
    IN [t |-> "float", n |-> (sg * num) \div g, d |-> Abs(den) \div g, s |-> ""]

\* int, float and bool take part in arithmetic (bool is a subclass of int).
IsNum(v) == v.t \in {"int", "float", "bool"}
IsFloaty(v) == v.t \in {"float", "nan"}
IsArith(v) == IsNum(v) \/ v.t = "nan"

\* Python's x == y on scalars: numbers compare by value across int, float
\* and bool; nan equals nothing, itself included.
PyEq(x, y) ==
    IF x.t = "nan" \/ y.t = "nan" THEN FALSE
    ELSE IF IsNum(x) /\ IsNum(y) THEN x.n * y.d = y.n * x.d
    ELSE IF IsNum(x) \/ IsNum(y) THEN FALSE
    ELSE x = y

\* Python's bool(x).
PyBool(v) ==
    CASE v.t = "none" -> FALSE
      [] v.t = "str" -> v.s # ""
      [] v.t = "nan" -> TRUE
      [] OTHER -> v.n # 0

\* x + y: numbers add (a float operand makes a float), texts concatenate,
\* anything else raises TypeError.
PyAdd(x, y) ==
    IF x.t = "err" \/ y.t = "err" THEN Err
    ELSE IF (x = BigFloat /\ IsNum(y)) \/ (IsNum(x) /\ y = BigFloat) THEN BigFloat
    ELSE IF IsArith(x) /\ IsArith(y) THEN
        IF x.t = "nan" \/ y.t = "nan" THEN NaN
        ELSE IF IsFloaty(x) \/ IsFloaty(y)
             THEN FloatV(x.n * y.d + y.n * x.d, x.d * y.d)
             ELSE IntV(x.n + y.n)
    ELSE IF x.t = "str" /\ y.t = "str" THEN StrV(x.s \o y.s)
    ELSE Err

\* x / y: true division, always a float; a zero divisor raises
\* ZeroDivisionError, a non-number raises TypeError.
PyDiv(x, y) ==
    IF x.t = "err" \/ y.t = "err" THEN Err
    ELSE IF IsArith(x) /\ IsArith(y) THEN
        IF y.t # "nan" /\ y.n = 0 THEN Err
        ELSE IF x.t = "nan" \/ y.t = "nan" THEN NaN
        ELSE FloatV(x.n * y.d, x.d * y.n)
    ELSE Err

\* x > y on numbers (False when either is nan); None or a number against a
\* text raises TypeError.  Texts are compared by PyStrGt.
RECURSIVE PyStrGt(_, _)
Ord(c) ==
    LET order == " ,-.0123456789=ABCDEFGHIJKLMNOPQRSTUVWXYZ_abcdefghijklmnopqrstuvwxyz"
    IN CHOOSE i \in 0..Len(order) :
         IF \E j \in 1..Len(order) : SubSeq(order, j, j) = c
         THEN i > 0 /\ SubSeq(order, i, i) = c
         ELSE i = 0
PyStrGt(a, b) ==
    IF a = "" THEN FALSE
    ELSE IF b = "" THEN TRUE
    ELSE LET ca == Ord(SubSeq(a, 1, 1))
             cb == Ord(SubSeq(b, 1, 1))
         IN IF ca # cb THEN ca > cb
            ELSE PyStrGt(SubSeq(a, 2, Len(a)), SubSeq(b, 2, Len(b)))

PyGt(x, y) ==
    IF x.t = "err" \/ y.t = "err" THEN Err
    ELSE IF IsArith(x) /\ IsArith(y) THEN
        IF x.t = "nan" \/ y.t = "nan" THEN BoolV(FALSE)
        ELSE BoolV(x.n * y.d > y.n * x.d)
    ELSE IF x.t = "str" /\ y.t = "str" THEN BoolV(PyStrGt(x.s, y.s))
    ELSE Err

(***************************************************************************)
(* Text helpers: str(x), str.strip(), str.replace(c, ""), float(text).     *)
(***************************************************************************)
\* The character standing for U+00A0 (no-break space) in the model's texts.
NBSP == "~"

IsSpace(c) == c \in {" ", NBSP}
IsDigit(c) == c \in {"0", "1", "2", "3", "4", "5", "6", "7", "8", "9"}
DigitVal(c) == CHOOSE i \in 0..9 : ToString(i) = c

RECURSIVE LStrip(_)
LStrip(x) ==
    IF x # "" /\ IsSpace(SubSeq(x, 1, 1)) THEN LStrip(SubSeq(x, 2, Len(x))) ELSE x

RECURSIVE RStrip(_)
RStrip(x) ==
    IF x # "" /\ IsSpace(SubSeq(x, Len(x), Len(x)))
    THEN RStrip(SubSeq(x, 1, Len(x) - 1)) ELSE x

\* x.strip()
Strip(x) == RStrip(LStrip(x))

\* The least member of a set of positions, 0 for the empty set.
FirstPos(S) == IF S = {} THEN 0 ELSE CHOOSE i \in S : \A j \in S : i <= j

\* Position of the first occurrence of the text old in x at or after
\* position s, 0 when there is none.
Find(x, old, s) ==
    FirstPos({i \in s..(Len(x) - Len(old) + 1) : SubSeq(x, i, i + Len(old) - 1) = old})

\* x.replace(old, new) for a non-empty text old: every occurrence, left to
\* right, without overlap.
RECURSIVE ReplaceSub(_, _, _)
ReplaceSub(x, old, new) ==
    LET i == Find(x, old, 1)
    IN IF i = 0 THEN x
       ELSE SubSeq(x, 1, i - 1) \o new
            \o ReplaceSub(SubSeq(x, i + Len(old), Len(x)), old, new)

\* x.replace(c, r) for a single character c.
Replace(x, c, r) == ReplaceSub(x, c, r)

\* x.strip(c) for a single character c.
RECURSIVE StripChar(_, _)
StripChar(x, c) ==
    IF x # "" /\ SubSeq(x, 1, 1) = c THEN StripChar(SubSeq(x, 2, Len(x)), c)
    ELSE IF x # "" /\ SubSeq(x, Len(x), Len(x)) = c
    THEN StripChar(SubSeq(x, 1, Len(x) - 1), c)
    ELSE x

RECURSIVE AllDigits(_)
AllDigits(x) ==
    x = "" \/ (IsDigit(SubSeq(x, 1, 1)) /\ AllDigits(SubSeq(x, 2, Len(x))))

\* The number a string of digits denotes ("" denotes 0).
RECURSIVE DigitsVal(_)
DigitsVal(x) ==
    IF x = "" THEN 0
    ELSE 10 * DigitsVal(SubSeq(x, 1, Len(x) - 1)) + DigitVal(SubSeq(x, Len(x), Len(x)))

RECURSIVE Pow10(_)
Pow10(k) == IF k = 0 THEN 1 ELSE 10 * Pow10(k - 1)

\* Position of the first c in x, 0 when there is none.
IndexOf(x, c) == Find(x, c, 1)

\* float(x) for a text x: surrounding whitespace is ignored; a sign, digits
\* with at most one decimal point (at least one digit), or "nan" in any
\* letter case, give a float; any other text raises ValueError.  The
\* exponent, infinity and digit-separator forms need the characters e, E, i,
\* f and _, which the model's input texts do not contain.
ParseFloat(x) ==
    LET y == Strip(x)
        signed == y # "" /\ SubSeq(y, 1, 1) \in {"+", "-"}
        sg == IF y # "" /\ SubSeq(y, 1, 1) = "-" THEN -1 ELSE 1
        body == IF signed THEN SubSeq(y, 2, Len(y)) ELSE y
        dot == IndexOf(body, ".")
        ip == IF dot = 0 THEN body ELSE SubSeq(body, 1, dot - 1)
        fp == IF dot = 0 THEN "" ELSE SubSeq(body, dot + 1, Len(body))
    IN IF body \in {"nan", "NaN", "NAN", "Nan", "nAn", "naN", "nAN", "NAn"} THEN NaN
       ELSE IF AllDigits(ip) /\ AllDigits(fp) /\ Len(ip) + Len(fp) > 0
       THEN FloatV(sg * (DigitsVal(ip) * Pow10(Len(fp)) + DigitsVal(fp)), Pow10(Len(fp)))
       ELSE Err

\* The decimal digits of r/d after the point (0 <= r < d), at most k of them.
RECURSIVE FracDigits(_, _, _)
FracDigits(r, d, k) ==
    IF r = 0 \/ k = 0 THEN ""
    ELSE ToString((10 * r) \div d) \o FracDigits((10 * r) % d, d, k - 1)

\* A Python list of values.
ListV(items) == [t |-> "list", n |-> 0, d |-> 1, s |-> "", l |-> items]

\* str(x).  A float prints its shortest decimal form; a float whose decimal
\* expansion does not end is cut after 16 digits.  A list prints its items
\* between brackets (texts between quotes).
RECURSIVE PyStr(_)
RECURSIVE JoinRepr(_)
JoinRepr(items) ==
    IF items = <<>> THEN ""
    ELSE LET h == Head(items)
             r == IF h.t = "str" THEN "'" \o h.s \o "'" ELSE PyStr(h)
         IN IF Len(items) = 1 THEN r ELSE r \o ", " \o JoinRepr(Tail(items))
PyStr(v) ==
    CASE v.t = "none" -> "None"
      [] v.t = "list" -> "[" \o JoinRepr(v.l) \o "]"
      [] v.t = "str" -> v.s
      [] v.t = "bool" -> IF v.n = 1 THEN "True" ELSE "False"
      [] v.t = "int" -> ToString(v.n)
      [] v.t = "nan" -> "nan"
      [] v.t = "float" ->
           LET a == Abs(v.n)
               fd == FracDigits(a % v.d, v.d, 16)
           IN (IF v.n < 0 THEN "-" ELSE "") \o ToString(a \div v.d) \o "."
              \o (IF fd = "" THEN "0" ELSE fd)
      [] OTHER -> "<exception>"

(***************************************************************************)
(* Address model: a1, _strip_dollars, _parse_range, _expand_range.         *)
(* An address is its text, e.g. "A1".                                      *)
(***************************************************************************)
Letters == "ABCDEFGHIJKLMNOPQRSTUVWXYZ"
IsUpper(c) == c # "" /\ IndexOf(Letters, c) > 0

\* openpyxl.utils.get_column_letter
RECURSIVE get_column_letter(_)
get_column_letter(c) ==
    IF c <= 26 THEN SubSeq(Letters, c, c)
    ELSE get_column_letter((c - 1) \div 26)
         \o SubSeq(Letters, ((c - 1) % 26) + 1, ((c - 1) % 26) + 1)

\* openpyxl.utils.column_index_from_string
RECURSIVE column_index_from_string(_)
column_index_from_string(x) ==
    IF x = "" THEN 0
    ELSE 26 * column_index_from_string(SubSeq(x, 1, Len(x) - 1))
         + IndexOf(Letters, SubSeq(x, Len(x), Len(x)))

a1(row, col) == get_column_letter(col) \o ToString(row)

_strip_dollars(ref) == Replace(ref, "$", "")

\* The longest prefix of x, of at most k characters, made of upper-case
\* letters (letters = TRUE) or of digits (letters = FALSE).
RECURSIVE TakeRun(_, _, _)
TakeRun(x, letters, k) ==
    IF x = "" \/ k = 0 THEN ""
    ELSE LET c == SubSeq(x, 1, 1)
         IN IF (letters /\ IsUpper(c)) \/ (~letters /\ IsDigit(c))
            THEN c \o TakeRun(SubSeq(x, 2, Len(x)), letters, k - 1)
            ELSE ""

RECURSIVE FirstRun(_, _, _)
FirstRun(x, letters, k) ==
    IF x = "" THEN ""
    ELSE LET run == TakeRun(x, letters, k)
         IN IF run # "" THEN run ELSE FirstRun(SubSeq(x, 2, Len(x)), letters, k)

\* re.findall(r"[A-Z]{1,3}", ref)[0] and re.findall(r"\d+", ref)[0]; "" stands
\* for the IndexError of an empty match list.
RefColLetters(ref) == FirstRun(ref, TRUE, 3)
RefRowDigits(ref) == FirstRun(ref, FALSE, Len(ref))
RefOk(ref) == RefColLetters(ref) # "" /\ RefRowDigits(ref) # ""
RefCol(ref) == column_index_from_string(RefColLetters(ref))
RefRow(ref) == DigitsVal(RefRowDigits(ref))

Min(x, y) == IF x <= y THEN x ELSE y
Max(x, y) == IF x >= y THEN x ELSE y

\* The rectangle walked from a to b as the corners are given: empty when b
\* lies above or left of a.
ExpandFromFirst(a, b) ==
    LET r1 == RefRow(a)
        r2 == RefRow(b)
        c1 == RefCol(a)
        c2 == RefCol(b)
        nc == c2 - c1 + 1
    IN [k \in 1..(IF r2 < r1 \/ c2 < c1 THEN 0 ELSE (r2 - r1 + 1) * nc) |->
            a1(r1 + ((k - 1) \div nc), c1 + ((k - 1) % nc))]

\* _expand_range(a, b): the addresses of the rectangle, row by row.  Defined
\* when RefOk(a) and RefOk(b); otherwise the code raises IndexError.
_expand_range(a, b) ==
    LET r1 == Min(RefRow(a), RefRow(b))
        r2 == Max(RefRow(a), RefRow(b))
        c1 == Min(RefCol(a), RefCol(b))
        c2 == Max(RefCol(a), RefCol(b))
        nc == c2 - c1 + 1
    IN [k \in 1..((r2 - r1 + 1) * nc) |->
            a1(r1 + ((k - 1) \div nc), c1 + ((k - 1) % nc))]

\* The text before and after the first occurrence of c in x.
Before(x, c) == SubSeq(x, 1, IndexOf(x, c) - 1)
After(x, c) == SubSeq(x, IndexOf(x, c) + 1, Len(x))

\* _parse_range(rng): rng.split(":") must give exactly two parts.
ParseRangeOk(rng) == IndexOf(rng, ":") > 0 /\ IndexOf(After(rng, ":"), ":") = 0
_parse_range(rng) ==
    <<_strip_dollars(Before(rng, ":")), _strip_dollars(After(rng, ":"))>>

(***************************************************************************)
(* Value coercion and the function library.  variant is "app" (app.py) or  *)
(* "geo" (app_0_geo.py) where the two files differ.                        *)
(***************************************************************************)
\* coerce_float(x): None for None and for text that is no number.  app.py
\* passes a bool through as a number, app_0_geo.py reads it as text.
coerce_float(variant, x) ==
    IF x.t = "none" THEN None
    ELSE IF x.t = "nan" THEN NaN
    ELSE IF x.t = "bigint" THEN Err
    ELSE IF x.t \in {"int", "float"} \/ (x.t = "bool" /\ variant = "app")
    THEN FloatV(x.n, x.d)
    ELSE LET s0 == Strip(PyStr(x))
             s1 == Replace(Replace(Replace(s0, " ", ""), NBSP, ""), ",", ".")
             f == ParseFloat(s1)
         IN IF s0 = "" \/ f.t = "err" THEN None ELSE f

_to_number(variant, v) == coerce_float(variant, v)

\* A sum that reads the items of a list argument but not the lists inside it.
RECURSIVE SumOneLevel(_, _)
RECURSIVE _excel_sum(_, _)
SumOneLevel(variant, args) ==
    IF args = <<>> THEN FloatV(0, 1)
    ELSE LET v == args[Len(args)]
             total == SumOneLevel(variant, SubSeq(args, 1, Len(args) - 1))
             num == coerce_float(variant, v)
         IN IF v.t = "list"
            THEN PyAdd(total, SumOneLevel(variant,
                                 SelectSeq(v.l, LAMBDA x : x.t # "list")))
            ELSE IF num.t # "none" THEN PyAdd(total, num)
            ELSE total

\* _excel_sum(args): lists are summed recursively, other items are coerced
\* and added when they are numbers; the total starts at 0.0.
_excel_sum(variant, args) ==
    IF args = <<>> THEN FloatV(0, 1)
    ELSE LET v == args[Len(args)]
             total == _excel_sum(variant, SubSeq(args, 1, Len(args) - 1))
             num == _to_number(variant, v)
         IN IF v.t = "list" THEN PyAdd(total, _excel_sum(variant, v.l))
            ELSE IF num.t # "none" THEN PyAdd(total, num)
            ELSE total

\* The numbers _excel_max collects: the items of each list argument (one
\* level only) and the scalar arguments, coerced, in order.
RECURSIVE MaxNums(_, _, _)
MaxNums(variant, args, inner) ==
    IF args = <<>> THEN <<>>
    ELSE LET v == Head(args)
             n == _to_number(variant, v)
             rest == MaxNums(variant, Tail(args), inner)
         IN IF v.t = "list" /\ ~inner THEN MaxNums(variant, v.l, TRUE) \o rest
            ELSE IF n.t # "none" THEN <<n>> \o rest
            ELSE rest

\* Python's max(nums): the first item, replaced by each later item that
\* compares greater.
RECURSIVE PyMax(_)
PyMax(nums) ==
    IF Len(nums) = 1 THEN nums[1]
    ELSE LET m == PyMax(SubSeq(nums, 1, Len(nums) - 1))
             x == nums[Len(nums)]
         IN IF PyBool(PyGt(x, m)) THEN x ELSE m

_excel_max(variant, args) ==
    LET nums == MaxNums(variant, args, FALSE)
    IN IF nums = <<>> THEN FloatV(0, 1) ELSE PyMax(nums)

_excel_if(cond, a, b) == IF PyBool(cond) THEN a ELSE b

\* isinstance(x, Exception): an exception object held as a value.  The tag
\* "exc" is what eval_formula of app.py hands back for a failed evaluation.
IsException(x) == x.t = "exc"
Exc == [t |-> "exc", n |-> 0, d |-> 1, s |-> ""]

\* IFERROR as eval_formula defines it: its argument has already been
\* evaluated when it is called.
IFERROR(x, fallback) == IF ~IsException(x) THEN x ELSE fallback

\* _excel_countif(values, criterion)
\* CountEqualValues compares the values themselves.
RECURSIVE CountEqualValues(_, _)
RECURSIVE _excel_countif(_, _)
CountEqualValues(vals, criterion) ==
    IF vals = <<>> THEN 0
    ELSE (IF PyEq(Head(vals), criterion) THEN 1 ELSE 0)
         + CountEqualValues(Tail(vals), criterion)
_excel_countif(vals, criterion) ==
    IF vals = <<>> THEN 0
    ELSE (IF PyStr(Head(vals)) = PyStr(criterion) THEN 1 ELSE 0)
         + _excel_countif(Tail(vals), criterion)

\* COUNTIF as eval_formula defines it: a scalar becomes a one-item list.
COUNTIF(vals, criterion) ==
    IntV(_excel_countif(IF vals.t = "list" THEN vals.l ELSE <<vals>>, criterion))

\* int(x) as VLOOKUP applies it to col_index: Err stands for the TypeError
\* or ValueError of a value that is no integer.
PyIntOf(x) ==
    CASE x.t \in {"int", "bool"} -> IntV(x.n)
      [] x.t = "float" -> IntV(IF x.n >= 0 THEN x.n \div x.d ELSE -((-x.n) \div x.d))
      [] x.t = "str" ->
           LET y == Strip(x.s)
               sg == IF y # "" /\ SubSeq(y, 1, 1) = "-" THEN -1 ELSE 1
               body == IF y # "" /\ SubSeq(y, 1, 1) \in {"+", "-"}
                       THEN SubSeq(y, 2, Len(y)) ELSE y
           IN IF body # "" /\ AllDigits(body) THEN IntV(sg * DigitsVal(body)) ELSE Err
      [] OTHER -> Err

(***************************************************************************)
(* Workbook access.  A sheet maps addresses to cell contents: a literal    *)
(* value, or the text of a formula (a text starting with "=").             *)
(***************************************************************************)
\* isinstance(v, str) and v.startswith("=")
IsFormula(v) == v.t = "str" /\ Len(v.s) >= 1 /\ SubSeq(v.s, 1, 1) = "="

\* ws.cell(r, c).value: None for a cell the sheet does not hold; openpyxl
\* raises ValueError for a row or column below 1.
WsCell(sheet, r, c) ==
    IF r < 1 \/ c < 1 THEN Err
    ELSE IF a1(r, c) \in DOMAIN sheet THEN sheet[a1(r, c)] ELSE None

\* ws[addr].value
WsAt(sheet, addr) == IF addr \in DOMAIN sheet THEN sheet[addr] ELSE None

\* _get(ctx, ref): ctx.values.get(ref) on the address without its dollars.
_get(vals, ref) ==
    LET r == _strip_dollars(ref)
    IN IF r \in DOMAIN vals THEN vals[r] ELSE None

\* A scan from the last row up: the last matching row decides.
RECURSIVE VlookupScanLast(_, _, _, _, _, _, _, _)
VlookupScanLast(sheet, r, b_row, ca, cb, lookup_str, col_index, rangeCheck) ==
    IF r > b_row THEN None
    ELSE IF WsCell(sheet, b_row, ca).t # "err"
            /\ Strip(PyStr(WsCell(sheet, b_row, ca))) = lookup_str
    THEN WsCell(sheet, b_row, ca + (col_index - 1))
    ELSE VlookupScanLast(sheet, r, b_row - 1, ca, cb, lookup_str, col_index, rangeCheck)

\* The rows of the table are scanned from a_row to b_row; the first row whose
\* key text equals lookup_str decides.  rangeCheck is TRUE for app.py, which
\* returns None for a target column outside the range; app_0_geo.py reads
\* the target column unchecked.
RECURSIVE VlookupScan(_, _, _, _, _, _, _, _)
VlookupScan(sheet, r, b_row, ca, cb, lookup_str, col_index, rangeCheck) ==
    IF r > b_row THEN None
    ELSE LET key == WsCell(sheet, r, ca)
             target_c == ca + (col_index - 1)
         IN IF key.t = "err" THEN Err
            ELSE IF Strip(PyStr(key)) = lookup_str
            THEN IF rangeCheck /\ (target_c < ca \/ target_c > cb) THEN None
                 ELSE WsCell(sheet, r, target_c)
            ELSE VlookupScan(sheet, r + 1, b_row, ca, cb, lookup_str, col_index,
                             rangeCheck)

\* A lookup that takes the string form of an absent lookup value, "None",
\* like that of any other value.
VlookupNoneAsText(variant, wb, cur, lookup_value, table_range, col_index) ==
    IF table_range.t # "str" THEN Err
    ELSE
    LET bang == IndexOf(table_range.s, "!")
        rng == IF bang > 0 THEN After(table_range.s, "!") ELSE table_range.s
        sh == ReplaceSub(StripChar(Strip(Before(table_range.s, "!")), "'"), "[1]", "")
        sheet == IF bang > 0 THEN sh ELSE cur
    IN IF ~ParseRangeOk(rng) THEN Err
       ELSE LET a_ref == _parse_range(rng)[1]
                b_ref == _parse_range(rng)[2]
                lookup_str == Strip(PyStr(lookup_value))
            IN IF sheet \notin DOMAIN wb THEN Err
               ELSE IF ~RefOk(a_ref) \/ ~RefOk(b_ref) THEN Err
               ELSE VlookupScan(wb[sheet], RefRow(a_ref), RefRow(b_ref),
                                RefCol(a_ref), RefCol(b_ref), lookup_str,
                                col_index, variant = "app")

\* _excel_vlookup(ctx, lookup_value, table_range, col_index): wb is the
\* workbook (sheet name -> sheet), cur the current sheet's name.  Err stands
\* for the exception of a table_range that is no text, has no "a:b" form or
\* names no sheet of the workbook.
_excel_vlookup(variant, wb, cur, lookup_value, table_range, col_index) ==
    IF table_range.t # "str" THEN Err
    ELSE
    LET bang == IndexOf(table_range.s, "!")
        rng == IF bang > 0 THEN After(table_range.s, "!") ELSE table_range.s
        sh == ReplaceSub(StripChar(Strip(Before(table_range.s, "!")), "'"), "[1]", "")
        sheet == IF bang > 0 THEN sh ELSE cur
    IN IF ~ParseRangeOk(rng) THEN Err
       ELSE LET a_ref == _parse_range(rng)[1]
                b_ref == _parse_range(rng)[2]
                lookup_str == IF lookup_value.t # "none"
                              THEN Strip(PyStr(lookup_value)) ELSE ""
            IN IF sheet \notin DOMAIN wb THEN Err
               ELSE IF ~RefOk(a_ref) \/ ~RefOk(b_ref) THEN Err
               ELSE VlookupScan(wb[sheet], RefRow(a_ref), RefRow(b_ref),
                                RefCol(a_ref), RefCol(b_ref), lookup_str,
                                col_index, variant = "app")

(***************************************************************************)
(* _transform_formula: the rewriting of a formula's text, step by step,    *)
(* with the regular expressions of the source matched character by         *)
(* character (leftmost match, then on from the end of the match).          *)
(***************************************************************************)
CharAt(x, i) == IF i >= 1 /\ i <= Len(x) THEN SubSeq(x, i, i) ELSE ""
From(x, i) == IF i > Len(x) THEN "" ELSE SubSeq(x, i, Len(x))

LowerLetters == "abcdefghijklmnopqrstuvwxyz"
ToUpper(c) ==
    IF c # "" /\ IndexOf(LowerLetters, c) > 0
    THEN CharAt(Letters, IndexOf(LowerLetters, c)) ELSE c
\* \w of the regular expressions, on the model's ASCII texts.
IsWordChar(c) ==
    c # "" /\ (IsDigit(c) \/ c = "_" \/ IndexOf(Letters, ToUpper(c)) > 0)

\* Number of characters from position i on that are upper-case letters
\* (kind "upper"), digits ("digit") or whitespace ("space").
RECURSIVE RunLen(_, _, _)
RunLen(x, i, kind) ==
    LET c == CharAt(x, i)
        ok == CASE kind = "upper" -> IsUpper(c)
                [] kind = "digit" -> c # "" /\ IsDigit(c)
                [] OTHER -> c # "" /\ IsSpace(c)
    IN IF ok THEN 1 + RunLen(x, i + 1, kind) ELSE 0

\* Length of the match of \$?[A-Z]{1,3}\$?\d+ starting at position i, 0 when
\* there is none.  The letters must be followed by an optional $ and a digit,
\* so a run of more than three letters matches only from inside the run.
MatchCell(x, i) ==
    LET p == IF CharAt(x, i) = "$" THEN i + 1 ELSE i
        k == RunLen(x, p, "upper")
        q == IF CharAt(x, p + k) = "$" THEN p + k + 1 ELSE p + k
        m == RunLen(x, q, "digit")
    IN IF k >= 1 /\ k <= 3 /\ m >= 1 THEN (q + m) - i ELSE 0

\* The position after the whitespace that starts at position i.
SkipSpaces(x, i) == i + RunLen(x, i, "space")

\* The match of (cell)\s*:\s*(cell) starting at position i: its length (0
\* when there is none) and its two groups.  l1 is the length of the first
\* cell, j the place of the colon, k the start of the second cell and l2 its
\* length.
RangeMatch(x, i, l1, j, k, l2) ==
    IF l1 > 0 /\ CharAt(x, j) = ":" /\ l2 > 0
    THEN [len |-> (k + l2) - i, a |-> SubSeq(x, i, i + l1 - 1),
          b |-> SubSeq(x, k, k + l2 - 1)]
    ELSE [len |-> 0, a |-> "", b |-> ""]
RangeSecond(x, i, l1, j, k) == RangeMatch(x, i, l1, j, k, MatchCell(x, k))
RangeColon(x, i, l1, j) == RangeSecond(x, i, l1, j, SkipSpaces(x, j + 1))
RangeFirst(x, i, l1) == RangeColon(x, i, l1, SkipSpaces(x, i + l1))
MatchRange(x, i) == RangeFirst(x, i, MatchCell(x, i))

\* repl_range: RNG('a','b') on the two groups without their dollars.
repl_range(m) == "RNG('" \o _strip_dollars(m.a) \o "','" \o _strip_dollars(m.b) \o "')"

\* re.sub of the range pattern by repl_range, from position s on.
RECURSIVE SubRangesFrom(_, _)
SubRangesFrom(x, s) ==
    LET i == FirstPos({j \in s..Len(x) : MatchRange(x, j).len > 0})
    IN IF i = 0 THEN From(x, s)
       ELSE SubSeq(x, s, i - 1) \o repl_range(MatchRange(x, i))
            \o SubRangesFrom(x, i + MatchRange(x, i).len)
SubRanges(x) == SubRangesFrom(x, 1)

\* _CELL_RE.sub(repl_cell, f), from position s on.
RECURSIVE SubCellsFrom(_, _)
SubCellsFrom(x, s) ==
    LET i == FirstPos({j \in s..Len(x) : MatchCell(x, j) > 0})
        l == MatchCell(x, i)
    IN IF i = 0 THEN From(x, s)
       ELSE SubSeq(x, s, i - 1)
            \o "CELL('" \o _strip_dollars(SubSeq(x, i, i + l - 1)) \o "')"
            \o SubCellsFrom(x, i + l)
SubCells(x) == SubCellsFrom(x, 1)

\* re.sub(r'"[^"]*"', protect_str, f): the text with each double-quoted
\* literal replaced by __STRk__ (k counted from n), and the literals.
RECURSIVE ProtectStrings(_, _)
ProtectStrings(x, n) ==
    LET open == Find(x, "\"", 1)
        close == IF open = 0 THEN 0 ELSE Find(x, "\"", open + 1)
    IN IF close = 0 THEN [f |-> x, strings |-> <<>>]
       ELSE LET rest == ProtectStrings(From(x, close + 1), n + 1)
            IN [f |-> SubSeq(x, 1, open - 1) \o "__STR" \o ToString(n) \o "__"
                      \o rest.f,
                strings |-> <<SubSeq(x, open, close)>> \o rest.strings]

\* for i, s in enumerate(strings): f = f.replace(f"__STR{i}__", s)
RECURSIVE RestoreStrings(_, _, _)
RestoreStrings(f, strings, i) ==
    IF i >= Len(strings) THEN f
    ELSE RestoreStrings(ReplaceSub(f, "__STR" \o ToString(i) \o "__", strings[i + 1]),
                        strings, i + 1)

\* Whether word, letter case ignored, stands in x at position i.
RECURSIVE NoCaseAt(_, _, _)
NoCaseAt(x, i, word) ==
    word = "" \/ (ToUpper(CharAt(x, i)) = ToUpper(CharAt(word, 1))
                  /\ NoCaseAt(x, i + 1, From(word, 2)))

\* re.sub(r"\bWORD\b", repl, f, flags=re.IGNORECASE), from position s on.
RECURSIVE SubWordFrom(_, _, _, _)
SubWordFrom(x, word, repl, s) ==
    LET i == FirstPos({j \in s..Len(x) :
                 /\ ~IsWordChar(CharAt(x, j - 1))
                 /\ NoCaseAt(x, j, word)
                 /\ ~IsWordChar(CharAt(x, j + Len(word)))})
    IN IF i = 0 THEN From(x, s)
       ELSE SubSeq(x, s, i - 1) \o repl \o SubWordFrom(x, word, repl, i + Len(word))
SubWord(x, word, repl) == SubWordFrom(x, word, repl, 1)

\* Length of the match of \bNAME\s*\( at position i, letter case ignored, 0
\* when there is none.
MatchFunc(x, i, name) ==
    LET end == i + Len(name) + RunLen(x, i + Len(name), "space")
    IN IF ~IsWordChar(CharAt(x, i - 1)) /\ NoCaseAt(x, i, name) /\ CharAt(x, end) = "("
       THEN (end - i) + 1 ELSE 0

\* re.sub(r"\bNAME\s*\(", "NAME(", f, flags=re.IGNORECASE), from s on.
RECURSIVE SubFuncFrom(_, _, _)
SubFuncFrom(x, name, s) ==
    LET i == FirstPos({j \in s..Len(x) : MatchFunc(x, j, name) > 0})
    IN IF i = 0 THEN From(x, s)
       ELSE SubSeq(x, s, i - 1) \o name \o "("
            \o SubFuncFrom(x, name, i + MatchFunc(x, i, name))
SubFunc(x, name) == SubFuncFrom(x, name, 1)

\* The function names whose letter case the transform normalises, in the
\* order of the source.
RECURSIVE SubFuncs(_, _)
SubFuncs(x, names) ==
    IF names = <<>> THEN x ELSE SubFuncs(SubFunc(x, Head(names)), Tail(names))

MappedFunctions(variant) ==
    IF variant = "app" THEN <<"SUM", "MAX", "IFERROR", "IF", "COUNTIF", "VLOOKUP">>
    ELSE <<"SUM", "IF", "VLOOKUP">>

\* Steps of _transform_formula up to the range rewriting.
TransformHead(formula) ==
    LET f0 == Strip(formula)
        f1 == IF CharAt(f0, 1) = "=" THEN From(f0, 2) ELSE f0
        f2 == ReplaceSub(f1, "^", "**")
        f3 == SubWord(f2, "TRUE", "True")
        f4 == SubWord(f3, "FALSE", "False")
    IN SubRanges(ReplaceSub(f4, "[1]", ""))

\* The cell rewriting between the protection and the restoring of the
\* double-quoted literals.
TransformCells(f) ==
    LET prot == ProtectStrings(f, 0)
    IN RestoreStrings(SubCells(prot.f), prot.strings, 0)

_transform_formula(variant, formula) ==
    SubFuncs(TransformCells(TransformHead(formula)), MappedFunctions(variant))

(***************************************************************************)
(* Expressions.  eval_formula hands the transformed text to Python's eval. *)
(* PyParse reads the text as Python does, for the part of Python's         *)
(* expression grammar that the transformed template formulas use:          *)
(*   numbers, quoted texts, True/False/None, names, calls f(a, b, ...),    *)
(*   parentheses, and the operators /, + and > in that order of binding.   *)
(* The tree it builds:                                                     *)
(*   lit   a literal          name  a bare name                            *)
(*   call  fn(args...)        add, div, gt   l + r, l / r, l > r           *)
(*   bad   text that is no expression (SyntaxError)                        *)
(***************************************************************************)
Lit(v) == [op |-> "lit", v |-> v]
Name(id) == [op |-> "name", id |-> id]
Add(l, r) == [op |-> "add", l |-> l, r |-> r]
Div(l, r) == [op |-> "div", l |-> l, r |-> r]
Gt(l, r) == [op |-> "gt", l |-> l, r |-> r]
Call(fn, args) == [op |-> "call", fn |-> fn, args |-> args]
Bad == [op |-> "bad"]

\* A parse step yields the tree read and the position after it, or fails.
Fail == [ok |-> FALSE, e |-> Bad, i |-> 0]
Got(e, i) == [ok |-> TRUE, e |-> e, i |-> i]

RECURSIVE SkipSp(_, _)
SkipSp(x, i) == IF CharAt(x, i) = " " THEN SkipSp(x, i + 1) ELSE i

RECURSIVE WordLen(_, _)
WordLen(x, i) == IF IsWordChar(CharAt(x, i)) THEN 1 + WordLen(x, i + 1) ELSE 0

\* A number literal at position i: digits, optionally a point and digits.
\* A letter right after the number is a tokenizer error.
ParseNumber(x, i) ==
    LET m == RunLen(x, i, "digit")
        point == CharAt(x, i + m) = "."
        k == IF point THEN RunLen(x, i + m + 1, "digit") ELSE 0
        end == IF point THEN i + m + 1 + k ELSE i + m
        whole == DigitsVal(SubSeq(x, i, i + m - 1))
        frac == IF k = 0 THEN 0 ELSE DigitsVal(SubSeq(x, i + m + 1, i + m + k))
    IN IF IsWordChar(CharAt(x, end)) THEN Fail
       ELSE IF point THEN Got(Lit(FloatV(whole * Pow10(k) + frac, Pow10(k))), end)
       ELSE Got(Lit(IntV(whole)), end)

\* The recursive-descent reading of the text x from position i.  mode names
\* the grammar rule; acc is the left operand read so far ("sumrest",
\* "termrest") or the arguments read so far ("args").
\*   expr:  sum [ ">" sum ]            sum:   term { "+" term }
\*   term:  atom { "/" atom }          args:  [ expr { "," expr } ] ")"
\*   atom:  number | text | "(" expr ")" | name | name "(" args
RECURSIVE Parse(_, _, _, _)
Parse(mode, x, i0, acc) ==
    LET i == SkipSp(x, i0)
        c == CharAt(x, i)
    IN CASE mode = "expr" ->
              LET l == Parse("sum", x, i, Bad)
                  j == SkipSp(x, l.i)
                  r == Parse("sum", x, j + 1, Bad)
              IN IF ~l.ok THEN Fail
                 ELSE IF CharAt(x, j) = ">" /\ CharAt(x, j + 1) \notin {"=", ">"}
                 THEN IF r.ok THEN Got(Gt(l.e, r.e), r.i) ELSE Fail
                 ELSE l
         [] mode = "sum" ->
              LET a == Parse("term", x, i, Bad)
              IN IF a.ok THEN Parse("sumrest", x, a.i, a.e) ELSE Fail
         [] mode = "sumrest" ->
              LET r == Parse("term", x, i + 1, Bad)
              IN IF c = "+"
                 THEN IF r.ok THEN Parse("sumrest", x, r.i, Add(acc, r.e)) ELSE Fail
                 ELSE Got(acc, i)
         [] mode = "term" ->
              LET a == Parse("atom", x, i, Bad)
              IN IF a.ok THEN Parse("termrest", x, a.i, a.e) ELSE Fail
         [] mode = "termrest" ->
              LET r == Parse("atom", x, i + 1, Bad)
              IN IF c = "/" /\ CharAt(x, i + 1) # "/"
                 THEN IF r.ok THEN Parse("termrest", x, r.i, Div(acc, r.e)) ELSE Fail
                 ELSE Got(acc, i)
         [] mode = "args" ->
              IF c = ")" THEN Got(acc, i + 1)
              ELSE LET a == Parse("expr", x, i, Bad)
                       k == SkipSp(x, a.i)
                   IN IF ~a.ok THEN Fail
                      ELSE IF CharAt(x, k) = ","
                      THEN Parse("args", x, k + 1, Append(acc, a.e))
                      ELSE IF CharAt(x, k) = ")" THEN Got(Append(acc, a.e), k + 1)
                      ELSE Fail
         [] OTHER ->
              IF c = "" THEN Fail
              ELSE IF IsDigit(c) THEN ParseNumber(x, i)
              ELSE IF c \in {"'", "\""} THEN
                   LET close == Find(x, c, i + 1)
                   IN IF close = 0 THEN Fail
                      ELSE Got(Lit(StrV(SubSeq(x, i + 1, close - 1))), close + 1)
              ELSE IF c = "(" THEN
                   LET inner == Parse("expr", x, i + 1, Bad)
                       k == SkipSp(x, inner.i)
                   IN IF inner.ok /\ CharAt(x, k) = ")" THEN Got(inner.e, k + 1)
                      ELSE Fail
              ELSE IF IsWordChar(c) THEN
                   LET id == SubSeq(x, i, i + WordLen(x, i) - 1)
                       j == SkipSp(x, i + Len(id))
                       args == Parse("args", x, j + 1, <<>>)
                   IN IF CharAt(x, j) = "("
                      THEN IF args.ok THEN Got(Call(id, args.e), args.i) ELSE Fail
                      ELSE IF id = "True" THEN Got(Lit(BoolV(TRUE)), j)
                      ELSE IF id = "False" THEN Got(Lit(BoolV(FALSE)), j)
                      ELSE IF id = "None" THEN Got(Lit(None), j)
                      ELSE Got(Name(id), j)
              ELSE Fail

\* The tree of the whole text; Bad when the text is no expression.
PyParse(x) ==
    LET p == Parse("expr", Strip(x), 1, Bad)
    IN IF p.ok /\ p.i > Len(Strip(x)) THEN p.e ELSE Bad

(***************************************************************************)
(* eval_formula: the environment of eval and the evaluation itself.        *)
(***************************************************************************)
\* The names eval_formula puts in env.
EnvNames(variant) ==
    IF variant = "app"
    THEN {"CELL", "RNG", "SUM", "MAX", "IF", "IFERROR", "COUNTIF", "VLOOKUP"}
    ELSE {"CELL", "RNG", "SUM", "IF", "VLOOKUP"}

\* The call fn(args) with evaluated arguments; Err is a raised exception
\* (NameError for a name env lacks, TypeError for a wrong argument count or
\* kind, IndexError for a reference without letters or digits).
Apply(variant, wb, cur, vals, fn, args) ==
    IF fn \notin EnvNames(variant) THEN Err
    ELSE CASE fn = "CELL" ->
                IF Len(args) # 1 \/ args[1].t # "str" THEN Err
                ELSE _get(vals, args[1].s)
           [] fn = "RNG" ->
                IF Len(args) # 2 \/ args[1].t # "str" \/ args[2].t # "str" THEN Err
                ELSE IF ~RefOk(args[1].s) \/ ~RefOk(args[2].s) THEN Err
                ELSE LET refs == _expand_range(args[1].s, args[2].s)
                     IN ListV([k \in 1..Len(refs) |-> _get(vals, refs[k])])
           [] fn = "SUM" -> _excel_sum(variant, args)
           [] fn = "MAX" -> _excel_max(variant, args)
           [] fn = "IF" ->
                IF Len(args) # 3 THEN Err ELSE _excel_if(args[1], args[2], args[3])
           [] fn = "IFERROR" ->
                IF Len(args) # 2 THEN Err ELSE IFERROR(args[1], args[2])
           [] fn = "COUNTIF" ->
                IF Len(args) # 2 THEN Err ELSE COUNTIF(args[1], args[2])
           [] fn = "VLOOKUP" ->
                IF Len(args) \notin {3, 4} \/ PyIntOf(args[3]).t = "err" THEN Err
                ELSE _excel_vlookup(variant, wb, cur, args[1], args[2],
                                    PyIntOf(args[3]).n)

\* Python's evaluation of the expression: the arguments of a call are
\* evaluated before the call, and an exception raised anywhere ends the whole
\* evaluation (Err).
RECURSIVE PyEval(_, _, _, _, _)
PyEval(variant, wb, cur, vals, e) ==
    CASE e.op = "lit" -> e.v
      [] e.op = "add" ->
           PyAdd(PyEval(variant, wb, cur, vals, e.l), PyEval(variant, wb, cur, vals, e.r))
      [] e.op = "div" ->
           PyDiv(PyEval(variant, wb, cur, vals, e.l), PyEval(variant, wb, cur, vals, e.r))
      [] e.op = "gt" ->
           PyGt(PyEval(variant, wb, cur, vals, e.l), PyEval(variant, wb, cur, vals, e.r))
      [] e.op = "call" ->
           LET args == [k \in 1..Len(e.args) |->
                           PyEval(variant, wb, cur, vals, e.args[k])]
           IN IF \E k \in 1..Len(args) : args[k].t = "err" THEN Err
              ELSE Apply(variant, wb, cur, vals, e.fn, args)
      [] OTHER -> Err

(***************************************************************************)
(* The template workbook, scaled down.  The working blocks keep their      *)
(* arrangement: the parameter block is a column to the right (E1 stands    *)
(* for E21, the "CA" formula cell; E2 for E22, the city; E3 for E24, the   *)
(* days), the main table has a header row and data rows below it, and the  *)
(* bottom block follows the main table.                                    *)
(***************************************************************************)
PARAM == [r1 |-> 1, c1 |-> 5, r2 |-> 3, c2 |-> 5]
MAIN == [r1 |-> 1, c1 |-> 1, r2 |-> 4, c2 |-> 4]
BOT == [r1 |-> 5, c1 |-> 1, r2 |-> 6, c2 |-> 4]

\* The address the handlers name "E21", and the two parameter inputs.
CaAddr == a1(PARAM.r1, PARAM.c2)
GeoAddr == a1(PARAM.r1 + 1, PARAM.c2)
DaysAddr == a1(PARAM.r1 + 2, PARAM.c2)

KNOWN_GREYS == {"FFD9D9D9", "FFBFBFBF", "FFE7E6E6", "FFDDDDDD"}
KNOWN_BLUES == {"FFBDD7EE", "FF9DC3E6", "FFB4C6E7", "FFB7DEE8"}

\* A cell's fill as openpyxl gives it: the pattern type ("" for none) and
\* the foreground colour with its type ("rgb", "theme") and its ARGB text.
Solid(rgb) == [patternType |-> "solid", type |-> "rgb", rgb |-> rgb]
ThemeFill == [patternType |-> "solid", type |-> "theme", rgb |-> ""]
NoFill == [patternType |-> "", type |-> "rgb", rgb |-> "00000000"]

cell_fill_argb(fill) ==
    IF fill.patternType = "" THEN ""
    ELSE IF fill.type = "rgb" /\ fill.rgb # "" THEN fill.rgb
    ELSE ""

\* A fallback that takes every colour but white for an input.
GreyUnlessWhite(fill) ==
    LET argb == cell_fill_argb(fill)
    IN IF argb \in KNOWN_GREYS THEN TRUE
       ELSE IF argb # "" /\ argb # "FFFFFFFF" THEN TRUE
       ELSE FALSE

is_grey_input(fill) ==
    LET argb == cell_fill_argb(fill)
    IN IF argb \in KNOWN_GREYS THEN TRUE
       ELSE IF argb # "" /\ argb \notin KNOWN_BLUES /\ argb # "FFFFFFFF" THEN TRUE
       ELSE FALSE

is_blue_auto(fill) == cell_fill_argb(fill) \in KNOWN_BLUES

Grey == Solid("FFD9D9D9")
Yellow == Solid("FFFFFF00")
Blue == Solid("FFBDD7EE")
White == Solid("FFFFFFFF")

\* The addresses of a block, row by row, as the handlers' loops visit them.
BlockAddrs(b) ==
    LET nc == b.c2 - b.c1 + 1
    IN [k \in 1..((b.r2 - b.r1 + 1) * nc) |->
            a1(b.r1 + ((k - 1) \div nc), b.c1 + ((k - 1) % nc))]

Range(seq) == {seq[k] : k \in DOMAIN seq}

\* Every address of the sheet (rows 1..max_row, columns 1..max_column).
SheetAddrs == {a1(r, c) : r \in 1..NRows, c \in 1..NCols}

(***************************************************************************)
(* Template sheets.  Each maps some addresses to their content; the other  *)
(* cells of the sheet are empty.  A template is one possible TEMPLATE      *)
(* sheet of the workbook: the session works on one of them.                *)
(***************************************************************************)
\* The k-th cell of the main table and the bottom block, row by row.
TableCell(k) == (BlockAddrs(MAIN) \o BlockAddrs(BOT))[k]

\* One formula cell more than app.py's pass limit.
ChainLen == MaxItersApp + 1

Templates ==
    {"sum", "chain", "rchain", "long", "cycle", "grey", "err", "iferror", "lookup"}

TemplateCells(tpl) ==
    CASE tpl = "sum" ->
           ("A1" :> IntV(1)) @@ ("A2" :> IntV(2)) @@ ("A3" :> IntV(3))
           @@ ("B2" :> IntV(5)) @@ ("E5" :> StrV("note"))
           @@ ("D1" :> StrV("=SUM(A1:A3)")) @@ ("D2" :> StrV("=SUM(A1,A2,A3)"))
           @@ ("D3" :> StrV("=SUM(D2,B2)"))
      [] tpl = "chain" ->
           ("B2" :> IntV(1)) @@ ("C2" :> StrV("=B2+1")) @@ ("D2" :> StrV("=C2+1"))
           @@ ("A5" :> StrV("=D2/2")) @@ ("E1" :> StrV("=E3+1"))
      [] tpl = "rchain" ->
           ("C2" :> StrV("=D2+1")) @@ ("D2" :> StrV("=A3+1"))
           @@ ("A3" :> StrV("=B3+1")) @@ ("B3" :> IntV(1))
      [] tpl = "long" ->
           [a \in {TableCell(k) : k \in 1..ChainLen} |->
              LET k == CHOOSE j \in 1..ChainLen : TableCell(j) = a
              IN StrV("=" \o (IF k = ChainLen THEN DaysAddr ELSE TableCell(k + 1))
                      \o "+1")]
      [] tpl = "cycle" ->
           ("B2" :> StrV("=B2+1")) @@ ("C2" :> StrV("=SUM(C2,1)"))
           @@ ("A5" :> StrV("=SUM(B5,1)")) @@ ("B5" :> StrV("=SUM(A5,1)"))
      [] tpl = "grey" ->
           ("A2" :> IntV(1)) @@ ("B2" :> StrV("=A2+1")) @@ ("C2" :> StrV("=B2+1"))
      [] tpl = "err" ->
           ("A2" :> IntV(1)) @@ ("C2" :> StrV("=1/A2"))
           @@ ("D2" :> StrV("=SUMPRODUCT(A2)")) @@ ("A3" :> StrV("=SUM(A2,1)"))
           @@ ("B3" :> StrV("=A2:B")) @@ ("C3" :> StrV("=VLOOKUP(A2,D5,2)"))
           @@ ("D5" :> StrV("Nope!A1:B2"))
           @@ ("B4" :> StrV("=VLOOKUP(A2,D6,2)")) @@ ("D6" :> StrV("A:B2"))
      [] tpl = "iferror" ->
           ("A2" :> IntV(0)) @@ ("C2" :> StrV("=IFERROR(1/A2,0)"))
           @@ ("D2" :> StrV("=IFERROR(A2,7)")) @@ ("A3" :> StrV("=IFERROR(B3+1,0)"))
           @@ ("C3" :> StrV("=IFERROR(NA(),0)"))
           @@ ("D3" :> StrV("=IF(true,\"A\",\"B\")"))
           @@ ("A4" :> StrV("=IF(0,\"A\",\"B\")"))
           @@ ("B4" :> StrV("=IF(TRUE,1,2)")) @@ ("C4" :> StrV("=IF(A2,1,2)"))
      [] tpl = "self" -> ("B2" :> StrV("=B2+1"))
      [] tpl = "lookup" ->
           ("A2" :> StrV("Moscow")) @@ ("B2" :> IntV(120)) @@ ("C2" :> IntV(1))
           @@ ("A3" :> StrV("Kazan")) @@ ("B3" :> IntV(20)) @@ ("C3" :> IntV(2))
           @@ ("A4" :> StrV("Moscow")) @@ ("B4" :> IntV(30)) @@ ("C4" :> IntV(3))
           @@ ("D5" :> StrV("A2:C4")) @@ ("D6" :> StrV("'[1]Ref'!A1:B2"))
           @@ ("E1" :> StrV("=VLOOKUP(E2,D5,2)"))
           @@ ("D1" :> StrV("=IFERROR(VLOOKUP(E2,D5,2),0)"))
           @@ ("D2" :> StrV("=VLOOKUP(E2,D5,3)"))
           @@ ("D3" :> StrV("=VLOOKUP(E2,D6,2)"))
           @@ ("D4" :> StrV("=VLOOKUP(E2,D5,4)"))
           @@ ("A5" :> StrV("=VLOOKUP(E2,D5,0)"))

\* The fills of the template's cells; a cell not listed has no fill.
TemplateFills(tpl) ==
    CASE tpl = "sum" -> ("B2" :> Grey) @@ ("D1" :> Blue) @@ ("D2" :> Blue)
      [] tpl = "chain" -> ("B2" :> Grey) @@ ("C2" :> Blue) @@ ("D2" :> White)
      [] tpl = "rchain" -> ("B3" :> Yellow) @@ ("C2" :> ThemeFill)
      [] tpl = "long" -> ("A1" :> Blue)
      [] tpl = "cycle" -> ("B2" :> Blue) @@ ("C2" :> Blue)
      [] tpl = "grey" -> ("A2" :> Grey) @@ ("B2" :> Grey) @@ ("C2" :> Blue)
      [] tpl = "err" -> ("A2" :> Grey) @@ ("C2" :> Blue)
      [] tpl = "iferror" -> ("A2" :> Grey) @@ ("C2" :> Blue)
      [] tpl = "self" -> ("B2" :> Grey)
      [] tpl = "lookup" -> ("B2" :> Grey) @@ ("E1" :> Blue)

\* The sheet "Ref" of the workbook, which formulas name as '[1]Ref'.
RefSheet ==
    ("A1" :> StrV("Moscow")) @@ ("B1" :> IntV(7))
    @@ ("A2" :> StrV("Kazan")) @@ ("B2" :> IntV(8))

\* The sheet "Keys": a lookup table whose keys are a text, a text with
\* spaces around it, an empty cell (row 3), an int and a float.
KeysSheet ==
    ("A1" :> StrV("Moscow")) @@ ("B1" :> IntV(1))
    @@ ("A2" :> StrV(" Tula ")) @@ ("B2" :> IntV(2))
    @@ ("B3" :> IntV(3))
    @@ ("A4" :> IntV(5)) @@ ("B4" :> IntV(4))
    @@ ("A5" :> FloatV(5, 1)) @@ ("B5" :> IntV(5))

\* load_wb(): the workbook, sheet name -> sheet.
load_wb(tpl) ==
    ("TEMPLATE" :> TemplateCells(tpl)) @@ ("Ref" :> RefSheet) @@ ("Keys" :> KeysSheet)

\* cell.fill of the cell at addr, fills being the fills of the sheet.
FillAt(fills, addr) == IF addr \in DOMAIN fills THEN fills[addr] ELSE NoFill

(***************************************************************************)
(* eval_formula.                                                           *)
(***************************************************************************)
\* expr = _transform_formula(formula), as eval reads it.
Compile(variant, formula) == PyParse(_transform_formula(variant, formula))

\* eval_formula(ctx, formula) from the point where expr is known: app.py
\* hands back the exception object of a failed evaluation, app_0_geo.py
\* hands back None.
\* An eval_formula without its try/except.
Uncaught(variant, v) == v

\* The try/except of eval_formula around eval.
Caught(variant, v) ==
    IF v.t # "err" THEN v
    ELSE IF variant = "app" THEN Exc ELSE None
eval_formula(variant, wb, cur, vals, expr) ==
    Caught(variant, PyEval(variant, wb, cur, vals, expr))

(***************************************************************************)
(* The session.                                                            *)
(***************************************************************************)
Variants == {"app", "geo"}

\* The cities of the parameter selectbox, the days of the number input and
\* what the editor may hand back for a grey cell of the main table (NaN is
\* the frame's empty numeric cell).
Cities == {"Moscow", "Unknown"}
DayVals == {FloatV(3, 1), FloatV(5, 2)}
EditVals == {StrV(""), IntV(0), IntV(1), StrV("x"), NaN}

VARIABLES
    variant,    \* which file runs: "app" (app.py) or "geo" (app_0_geo.py)
    tpl,        \* the name of the template the workbook was loaded from
    wb,         \* the workbook: sheet name -> (address -> content)
    fills,      \* the fills of the TEMPLATE sheet's cells
    exprs,      \* formula address -> the expression eval reads its text as
    values,     \* ctx.values / the session's calc_values: address -> value
    formulas,   \* recalc_block's dict formulas, as the sequence of its keys
    pc,         \* "idle", "recalc" (inside recalc_block), "returned"
    iter,       \* the pass recalc_block is in, counted from 1
    pos,        \* position in formulas of the next cell of the pass
    changed,    \* recalc_block's counter of the pass
    calls,      \* clicks on "Calculate" so far
    pre,        \* history: the store handed to recalc_block
    seen,       \* history: the cells evaluated so far in the pass
    last,       \* history: the latest evaluation of a cell
    rerun,      \* history: how this invocation relates to the one before
    lib,        \* a call of one library function: its name, arguments, result
    geo_tabs,   \* st.session_state["geo_tabs"]: the tab ids, in the order added
    tab_values, \* tab id -> st.session_state[f"{tab_id}__calc_values"]
    active,     \* position in geo_tabs of the tab whose handler runs, or 0
    edited_df   \* history: the main table as the user left it in the editor

vars == <<variant, tpl, wb, fills, exprs, values, formulas, pc, iter, pos, changed,
          calls, pre, seen, last, rerun, lib, geo_tabs, tab_values, active, edited_df>>

\* The sheet the session works on.
ws == wb["TEMPLATE"]

\* The two defaults exchanged: app_0_geo.py's recalc_block with app.py's
\* pass limit and the reverse.
MaxItersSwapped(v) == IF v = "app" THEN MaxItersGeo ELSE MaxItersApp

\* max_iters, the default of recalc_block's parameter.
MaxIters(v) == IF v = "app" THEN MaxItersApp ELSE MaxItersGeo

\* dict.get(addr)
StoreGet(vals, addr) == IF addr \in DOMAIN vals THEN vals[addr] ELSE None

\* A store write that does not keep to its address.
StorePutAll(vals, addr, v) == [a \in DOMAIN vals \cup {addr} |-> v]

\* vals[addr] = v
StorePut(vals, addr, v) ==
    [a \in DOMAIN vals \cup {addr} |-> IF a = addr THEN v ELSE vals[a]]

\* A comparison that looks at the kind of the two values only.
KindDiffers(x, y) == x.t # y.t

\* Python's x != y.
PyNe(x, y) == ~PyEq(x, y)

\* The initial store of app.py: every cell of the sheet, a formula cell as
\* None.
InitStoreApp(sheet) ==
    [a \in SheetAddrs |-> IF IsFormula(WsAt(sheet, a)) THEN None ELSE WsAt(sheet, a)]

\* init_calc_values of app_0_geo.py: the cells of the three blocks only.
init_calc_values(sheet) ==
    [a \in Range(BlockAddrs(PARAM)) \cup Range(BlockAddrs(MAIN))
           \cup Range(BlockAddrs(BOT)) \cup {CaAddr} |->
        IF IsFormula(WsAt(sheet, a)) THEN None ELSE WsAt(sheet, a)]

NoEval == [addr |-> "", raised |-> FALSE, old |-> None, new |-> None]

\* No library function is called on its own.
NoCall == [fn |-> "", args |-> <<>>, out |-> None, done |-> FALSE]

\* The session right after the workbook t has been loaded.
\* No table has been edited.
NoDf == [a \in {} |-> None]

Loaded(t) ==
    /\ variant \in Variants
    /\ tpl = t
    /\ wb = load_wb(tpl)
    /\ fills = TemplateFills(tpl)
    /\ exprs = [a \in {b \in DOMAIN ws : IsFormula(ws[b])} |-> Compile(variant, ws[a].s)]
    /\ values = IF variant = "app" THEN InitStoreApp(ws) ELSE init_calc_values(ws)
    /\ formulas = <<>>
    /\ pc = "idle"
    /\ iter = 0
    /\ pos = 0
    /\ changed = 0
    /\ calls = 0
    /\ pre = values
    /\ seen = {}
    /\ last = NoEval
    /\ rerun = "no"
    /\ edited_df = NoDf

\* No tab: the session of one store.
NoTabs ==
    /\ geo_tabs = <<>>
    /\ tab_values = <<>>
    /\ active = 0

Init ==
    /\ \E t \in Templates : Loaded(t)
    /\ lib = NoCall
    /\ NoTabs

\* The grey cells of the main table's data rows, which the handler writes.
GreyAddrs ==
    {a \in {a1(r, c) : r \in (MAIN.r1 + 1)..MAIN.r2, c \in MAIN.c1..MAIN.c2} :
        is_grey_input(FillAt(fills, a))}

\* What the table editor shows for a cell before the user edits it: app.py
\* fills it from the template sheet, app_0_geo.py from the store; an empty
\* cell shows as "".
Shown(v, sheet, vals, addr) ==
    LET x == IF v = "app" THEN WsAt(sheet, addr) ELSE StoreGet(vals, addr)
    IN IF x.t = "none" THEN StrV("") ELSE x

\* The days written to the store: app.py keeps a whole number as an int,
\* app_0_geo.py always writes a float.
DaysWritten(v, d) == IF v = "app" /\ d.d = 1 THEN IntV(d.n) ELSE d

\* The store after the handler has written the parameters.
WriteParams(v, vals, geo_val, days_val) ==
    StorePut(StorePut(vals, GeoAddr, StrV(geo_val)), DaysAddr, DaysWritten(v, days_val))

\* A grey cell the user left as the editor showed it.
NoEdit == [t |-> "noedit", n |-> 0, d |-> 1, s |-> ""]

\* The store after the handler has written the parameters and the grey
\* cells; typed maps each grey address to what the user typed, or to NoEdit.
WriteInputs(v, sheet, vals, geo_val, days_val, typed) ==
    LET vals1 == WriteParams(v, vals, geo_val, days_val)
        edited == [a \in DOMAIN typed |->
                      IF typed[a] = NoEdit THEN Shown(v, sheet, vals1, a) ELSE typed[a]]
    IN [a \in DOMAIN vals1 \cup DOMAIN edited |->
          IF a \in DOMAIN edited
          THEN (IF PyEq(edited[a], StrV("")) THEN None ELSE edited[a])
          ELSE vals1[a]]

\* The formula addresses of a block, in the order of the handler's loops.
BlockFormulas(sheet, b) ==
    SelectSeq(BlockAddrs(b), LAMBDA a : IsFormula(WsAt(sheet, a)))

\* calc_cells: "E21", then (app_0_geo.py only) the formula cells of the
\* parameter block, then those of the main table and of the bottom block.
CalcCells(v, sheet) ==
    <<CaAddr>> \o (IF v = "geo" THEN BlockFormulas(sheet, PARAM) ELSE <<>>)
    \o BlockFormulas(sheet, MAIN) \o BlockFormulas(sheet, BOT)

RECURSIVE FormulaKeysLastFirst(_, _, _)
RECURSIVE FormulaKeys(_, _, _)
\* A dict that would give its keys back newest first.
FormulaKeysLastFirst(sheet, addr_list, keys) ==
    IF addr_list = <<>> THEN keys
    ELSE LET addr == Head(addr_list)
         IN FormulaKeysLastFirst(sheet, Tail(addr_list),
                IF IsFormula(WsAt(sheet, addr)) /\ addr \notin Range(keys)
                THEN <<addr>> \o keys ELSE keys)

\* The keys of the dict recalc_block builds from addr_list: the addresses
\* holding a formula, each once, in the order of their first occurrence.
FormulaKeys(sheet, addr_list, keys) ==
    IF addr_list = <<>> THEN keys
    ELSE LET addr == Head(addr_list)
         IN FormulaKeys(sheet, Tail(addr_list),
                IF IsFormula(WsAt(sheet, addr)) /\ addr \notin Range(keys)
                THEN Append(keys, addr) ELSE keys)

\* The click on "Calculate" up to the first pass of recalc_block.  rerun
\* records whether the handler's writes left the store as the invocation
\* before left it, and if so whether that invocation ended on a pass without
\* a change ("quiet") or at the pass limit ("limit").
Calculate ==
    /\ pc = "idle"
    /\ calls < MaxCalls
    /\ \E geo_val \in Cities, days_val \in DayVals :
         \E typed \in [GreyAddrs -> EditVals \cup {NoEdit}] :
            values' = WriteInputs(variant, ws, values, geo_val, days_val, typed)
    /\ pre' = values'
    /\ formulas' = FormulaKeys(ws, CalcCells(variant, ws), <<>>)
    /\ pc' = "recalc"
    /\ iter' = 1
    /\ pos' = 1
    /\ changed' = 0
    /\ calls' = calls + 1
    /\ seen' = {}
    /\ last' = NoEval
    /\ rerun' = IF calls = 0 \/ values' # values THEN "no"
                ELSE IF changed = 0 THEN "quiet" ELSE "limit"
    /\ UNCHANGED <<variant, tpl, wb, fills, exprs, lib, geo_tabs, tab_values, active, edited_df>>

\* A loop body that stores what eval_formula gave, an exception object
\* included.
KeepException(v, r) == r

\* val_new of recalc_block: what eval_formula gave for the cell, an
\* exception object (app.py) turned into None.
ExcToNone(v, r) == IF v = "app" /\ IsException(r) THEN None ELSE r
ValNew(v, w, vals, expr) == ExcToNone(v, eval_formula(v, w, "TEMPLATE", vals, expr))

\* A loop body that stores the value without counting the change.
CountNothing(c) == c

\* changed += 1
CountChange(c) == c + 1

\* The rest of the loop body once the cell is evaluated: raw is what eval
\* gave (Err when it raised), val_new the value to store, val_old the stored
\* value.
StoreNew(addr, raw, val_new, val_old) ==
    /\ IF PyNe(val_new, val_old)
       THEN values' = StorePut(values, addr, val_new) /\ changed' = CountChange(changed)
       ELSE UNCHANGED <<values, changed>>
    /\ seen' = seen \cup {addr}
    /\ last' = [addr |-> addr, raised |-> raw.t = "err", old |-> val_old, new |-> val_new]
Evaluated(addr, raw) ==
    StoreNew(addr, raw, ExcToNone(variant, Caught(variant, raw)), StoreGet(values, addr))

\* One turn of the inner loop: evaluate the next formula cell and store the
\* value when it differs from the stored one.
EvalCell ==
    /\ pc = "recalc"
    /\ pos <= Len(formulas)
    /\ Evaluated(formulas[pos],
                 PyEval(variant, wb, "TEMPLATE", values, exprs[formulas[pos]]))
    /\ pos' = pos + 1
    /\ UNCHANGED <<variant, tpl, wb, fills, exprs, formulas, pc, iter, calls, pre, rerun,
                   lib, geo_tabs, tab_values, active, edited_df>>

\* A loop without "if changed == 0: break": it returns after the last pass
\* only.
EndPassAtLimit ==
    /\ pc = "recalc"
    /\ pos > Len(formulas)
    /\ IF iter = MaxIters(variant)
       THEN pc' = "returned" /\ UNCHANGED <<iter, pos, changed, seen>>
       ELSE pc' = "recalc" /\ iter' = iter + 1 /\ pos' = 1 /\ changed' = 0 /\ seen' = {}
    /\ UNCHANGED <<variant, tpl, wb, fills, exprs, values, formulas, calls, pre, last,
                   rerun, lib, geo_tabs, tab_values, active, edited_df>>

\* The end of a pass: return after a pass without a change or after the
\* last pass, otherwise start the next pass.
EndPass ==
    /\ pc = "recalc"
    /\ pos > Len(formulas)
    /\ IF changed = 0 \/ iter = MaxIters(variant)
       THEN pc' = "returned" /\ UNCHANGED <<iter, pos, changed, seen>>
       ELSE pc' = "recalc" /\ iter' = iter + 1 /\ pos' = 1 /\ changed' = 0 /\ seen' = {}
    /\ UNCHANGED <<variant, tpl, wb, fills, exprs, values, formulas, calls, pre, last,
                   rerun, lib, geo_tabs, tab_values, active, edited_df>>

\* The handler keeps ctx.values as the session's store; the edited table
\* is a local of the run that ends here.
SaveStore ==
    /\ pc = "returned"
    /\ pc' = "idle"
    /\ edited_df' = NoDf
    /\ UNCHANGED <<variant, tpl, wb, fills, exprs, values, formulas, iter, pos, changed,
                   calls, pre, seen, last, rerun, lib, geo_tabs, tab_values, active>>

Next == Calculate \/ EvalCell \/ EndPass \/ SaveStore

Spec == Init /\ [][Next]_vars

\* The control of recalc_block's two loops, without the evaluation: the inner
\* loop moves to the next cell, the outer loop returns or starts a pass.
\* Every EvalCell and EndPass step is such a step.
LoopControl ==
    /\ pc = "recalc"
    /\ \/ pos <= Len(formulas) /\ pos' = pos + 1 /\ pc' = pc /\ iter' = iter
       \/ pos > Len(formulas) /\ pc' = "returned" /\ pos' = pos /\ iter' = iter
       \/ pos > Len(formulas) /\ pc' = pc /\ pos' = 1 /\ iter' = iter + 1

\* recalc_block is sequential code: once entered, its loops keep stepping.
FairSpec == Spec /\ WF_<<pc, iter, pos>>(LoopControl)

(***************************************************************************)
(* The function library called on its own: one call of SUM, MAX or COUNTIF *)
(* as eval_formula's env defines them, of coerce_float or of               *)
(* _expand_range, on arguments drawn from the sets below.                  *)
(***************************************************************************)
\* The items of the spec's example range, a text with spaces, None and numbers.
Scalars ==
    {StrV("3"), StrV("4,5"), StrV(""), StrV("x"), StrV(" 1 000 "), None, IntV(2),
     IntV(-3), FloatV(1, 2)}

\* Lists: the example range, the empty list and lists nested three deep.
NestItems == {StrV("4,5"), IntV(2), IntV(-3), StrV("x")}
Lists ==
    {ListV(<<StrV("3"), StrV("4,5"), StrV(""), StrV("x")>>), ListV(<<>>)}
    \cup {ListV(<<a, ListV(<<b, ListV(<<c>>)>>)>>) : a, b, c \in NestItems}

\* The argument tuples of SUM and MAX.
NumArgs ==
    {<<>>} \cup {<<x>> : x \in Scalars \cup Lists}
    \cup {<<x, y>> : x \in Scalars, y \in Scalars \cup Lists}

\* The values and criteria of COUNTIF.
CountItems ==
    {IntV(1), FloatV(1, 1), StrV("1"), StrV("1.0"), None, StrV("None"), BoolV(TRUE),
     StrV("True"), StrV("x")}
CountArgs ==
    {<<v, c>> : v \in CountItems, c \in CountItems}
    \cup {<<ListV(<<a, b, IntV(1)>>), c>> : a, b \in CountItems, c \in CountItems}

\* The inputs of coerce_float.
CoerceArgs ==
    {<<x>> : x \in Scalars \cup {BoolV(TRUE), NaN, HugeInt, StrV("nan"), StrV("1,5,5"),
                               StrV("-"), StrV(NBSP \o "7"), StrV("-0,25"),
                               ListV(<<IntV(1)>>)}}

\* The corners of _expand_range.
Corners == {a1(r, c) : r \in 1..3, c \in 1..3} \cup {"$C$1", "$B3", "AA2"}
ExpandArgs == {<<StrV(a), StrV(b)>> : a, b \in Corners}

\* The formula texts handed to _transform_formula.
TransformTexts ==
    {"=IF(A1>0,\"yes\",\"no\")", "=IF(B2>1,\"A1:B2\",\"\")", "=\"A1\"", "=\"x\"+\"y\"",
     " =C3 ", "=SUM(A1:A3)", "=$A$1:$B$2", "=A1 : B2", "=A1+B2", "=SUM(A1:A3)+C1",
     "=sum( A1 , 2 )", "=LOG10(A1)", "=ABCD1", "=1E5", "=MAX1", "=X12Y",
     "=SUMPRODUCT(A2)", "=A2:B", "=NA()", "=A1<>B1", "=2^3", "=true", "=[1]A1", "=",
     "A1"}
TransformArgs == {<<StrV(t)>> : t \in TransformTexts}

\* The lookup values of VLOOKUP on the sheet "Keys".
LookupVals ==
    {StrV("Moscow"), StrV(" Moscow"), StrV("Tula"), StrV(" Tula "), None, StrV("None"),
     StrV(""), IntV(5), FloatV(5, 1), StrV("5"), StrV("5.0"), StrV(" 5 "), StrV("Kazan")}
LookupArgs == {<<v, StrV("Keys!A1:B5"), IntV(2)>> : v \in LookupVals}

\* The fills read_block_style meets: pattern type ("" for none), colour type
\* and ARGB text of the foreground colour.
FillColours ==
    KNOWN_GREYS \cup KNOWN_BLUES \cup {"FFFFFFFF", "FFFFFF00", "00000000", "ffbdd7ee", ""}
FillArgs ==
    {<<StrV(p), StrV(t), StrV(c)>> :
        p \in {"", "solid", "gray125"}, t \in {"rgb", "theme"}, c \in FillColours}

LibCalls ==
    {[fn |-> f, args |-> a, out |-> None, done |-> FALSE] :
        f \in {"SUM", "MAX"}, a \in NumArgs}
    \cup {[fn |-> "COUNTIF", args |-> a, out |-> None, done |-> FALSE] : a \in CountArgs}
    \cup {[fn |-> "coerce_float", args |-> a, out |-> None, done |-> FALSE] :
             a \in CoerceArgs}
    \cup {[fn |-> "_expand_range", args |-> a, out |-> None, done |-> FALSE] :
             a \in ExpandArgs}
    \cup {[fn |-> "_transform_formula", args |-> a, out |-> None, done |-> FALSE] :
             a \in TransformArgs}
    \cup {[fn |-> "VLOOKUP", args |-> a, out |-> None, done |-> FALSE] : a \in LookupArgs}
    \cup {[fn |-> "read_block_style", args |-> a, out |-> None, done |-> FALSE] :
             a \in FillArgs}

LibInit ==
    /\ Loaded("sum")
    /\ lib \in LibCalls
    /\ NoTabs

\* The call returns out (Err: it raised).
Returns(out) ==
    /\ ~lib.done
    /\ lib' = [lib EXCEPT !.out = out, !.done = TRUE]
    /\ UNCHANGED <<variant, tpl, wb, fills, exprs, values, formulas, pc, iter, pos,
                   changed, calls, pre, seen, last, rerun, geo_tabs, tab_values, active,
                   edited_df>>

\* SUM(*args), MAX(*args), COUNTIF(values, criterion) of eval_formula's env.
CallSum == lib.fn = "SUM" /\ Returns(Apply(variant, wb, "TEMPLATE", values, "SUM", lib.args))
CallMax == lib.fn = "MAX" /\ Returns(Apply(variant, wb, "TEMPLATE", values, "MAX", lib.args))
CallCountif ==
    /\ lib.fn = "COUNTIF"
    /\ Returns(Apply(variant, wb, "TEMPLATE", values, "COUNTIF", lib.args))

CallCoerce == lib.fn = "coerce_float" /\ Returns(coerce_float(variant, lib.args[1]))

CallExpand ==
    /\ lib.fn = "_expand_range"
    /\ Returns(LET refs == _expand_range(lib.args[1].s, lib.args[2].s)
               IN ListV([k \in 1..Len(refs) |-> StrV(refs[k])]))

\* _transform_formula(formula)
CallTransform ==
    /\ lib.fn = "_transform_formula"
    /\ Returns(StrV(_transform_formula(variant, lib.args[1].s)))

\* VLOOKUP(lookup_value, table_range, col_index) of eval_formula's env.
CallVlookup ==
    /\ lib.fn = "VLOOKUP"
    /\ Returns(Apply(variant, wb, "TEMPLATE", values, "VLOOKUP", lib.args))

\* read_block_style on one cell: the pair it appends to the grey mask and to
\* the blue mask.
CallStyle ==
    /\ lib.fn = "read_block_style"
    /\ Returns(LET fill == [patternType |-> lib.args[1].s, type |-> lib.args[2].s,
                            rgb |-> lib.args[3].s]
               IN ListV(<<BoolV(is_grey_input(fill)), BoolV(is_blue_auto(fill))>>))

LibNext ==
    \/ CallSum \/ CallMax \/ CallCountif \/ CallCoerce \/ CallExpand
    \/ CallTransform \/ CallVlookup \/ CallStyle

LibSpec == LibInit /\ [][LibNext]_vars

(***************************************************************************)
(* The tabs of app_0_geo.py: every tab has an id, and the session keeps    *)
(* one store per id.  A click on a tab's "Calculate" copies the store of   *)
(* the tab's id into ctx.values, runs recalc_block on it (EvalCell,        *)
(* EndPass) and puts ctx.values back under the id.                         *)
(***************************************************************************)
\* Tabs a session may hold.
MaxTabs == 2

\* str(uuid.uuid4())[:8]: eight hexadecimal digits of a random number;
\* nothing keeps an id from coming up twice.
TabIds == {"1f0c9a3e", "b27d44c1"}

\* dict assignment: session_state[key] = v
TabPut(stores, id, v) ==
    [i \in DOMAIN stores \cup {id} |-> IF i = id THEN v ELSE stores[i]]

\* add_geo_tab(geo_name) and the rest of the script run: the id joins
\* geo_tabs, the store under the id is set to None and the loop over the
\* tabs puts the initial store there.
add_geo_tab(id) ==
    /\ geo_tabs' = Append(geo_tabs, id)
    /\ tab_values' = TabPut(tab_values, id, init_calc_values(ws))

\* The first run of main adds the first tab.
TabInit ==
    /\ Loaded("sum")
    /\ variant = "geo"
    /\ lib = NoCall
    /\ active = 0
    /\ \E id \in TabIds :
          /\ geo_tabs = <<id>>
          /\ tab_values = TabPut(<<>>, id, init_calc_values(ws))

\* The button "Add".
AddTab ==
    /\ pc = "idle"
    /\ Len(geo_tabs) < MaxTabs
    /\ \E id \in TabIds : add_geo_tab(id)
    /\ UNCHANGED <<variant, tpl, wb, fills, exprs, values, formulas, pc, iter, pos,
                   changed, calls, pre, seen, last, rerun, lib, active, edited_df>>

\* apply_user_inputs_and_recalc(tab_id, wb, ws) up to the first pass of
\* recalc_block, for the tab at position k: vals is a copy of the store kept
\* under the tab's id.
CalculateTab ==
    /\ pc = "idle"
    /\ calls < MaxCalls
    /\ \E k \in 1..Len(geo_tabs) :
         /\ active' = k
         /\ \E geo_val \in Cities, days_val \in DayVals :
              \E typed \in [GreyAddrs -> EditVals \cup {NoEdit}] :
                 values' = WriteInputs(variant, ws, tab_values[geo_tabs[k]],
                                       geo_val, days_val, typed)
    /\ pre' = values'
    /\ formulas' = FormulaKeys(ws, CalcCells(variant, ws), <<>>)
    /\ pc' = "recalc"
    /\ iter' = 1
    /\ pos' = 1
    /\ changed' = 0
    /\ calls' = calls + 1
    /\ seen' = {}
    /\ last' = NoEval
    /\ UNCHANGED <<variant, tpl, wb, fills, exprs, rerun, lib, geo_tabs, tab_values, edited_df>>

\* st.session_state[f"{tab_id}__calc_values"] = ctx.values
SaveTab ==
    /\ pc = "returned"
    /\ active # 0
    /\ pc' = "idle"
    /\ tab_values' = TabPut(tab_values, geo_tabs[active], values)
    /\ active' = 0
    /\ UNCHANGED <<variant, tpl, wb, fills, exprs, values, formulas, iter, pos, changed,
                   calls, pre, seen, last, rerun, lib, geo_tabs, edited_df>>

TabNext == AddTab \/ CalculateTab \/ EvalCell \/ EndPass \/ SaveTab

TabSpec == TabInit /\ [][TabNext]_vars

(***************************************************************************)
(* The session whose user edits any cell of the main table: st.data_editor *)
(* cannot disable single cells, so the handler gets a table in which       *)
(* derived and label cells may have been edited too.                       *)
(***************************************************************************)
\* Cells of the table the user edits before one click.
MaxEdits == 1

EditTemplates == {"sum", "rchain"}

\* The data rows of the main table, which the editor shows.
TableData == {a1(r, c) : r \in (MAIN.r1 + 1)..MAIN.r2, c \in MAIN.c1..MAIN.c2}

\* The values the user types into a cell of the table.
TypedVals == {StrV(""), IntV(1)}

\* What the user may have typed: a value at no more than MaxEdits cells of
\* the table, NoEdit at the others.
TableEdits ==
    UNION {{[a \in TableData |-> IF a \in S THEN f[a] ELSE NoEdit] : f \in [S -> TypedVals]} :
             S \in {T \in SUBSET TableData : Cardinality(T) <= MaxEdits}}

\* A handler that writes every cell of the edited table back.
AnyCell(typed) == typed

\* "if not grey_mask.iloc[i, j]: continue": the cells of the edited table
\* the handler writes back.
GreyOnly(typed) == [a \in DOMAIN typed \cap GreyAddrs |-> typed[a]]

\* The click on "Calculate" after the user edited the table, edits being
\* the tables the user may have left.
ClickWith(edits) ==
    /\ pc = "idle"
    /\ calls < MaxCalls
    /\ \E geo_val \in Cities, days_val \in DayVals, typed \in edits :
         /\ edited_df' = typed
         /\ values' = WriteInputs(variant, ws, values, geo_val, days_val, GreyOnly(typed))
    /\ pre' = values'
    /\ formulas' = FormulaKeys(ws, CalcCells(variant, ws), <<>>)
    /\ pc' = "recalc"
    /\ iter' = 1
    /\ pos' = 1
    /\ changed' = 0
    /\ calls' = calls + 1
    /\ seen' = {}
    /\ last' = NoEval
    /\ rerun' = IF calls = 0 \/ values' # values THEN "no"
                ELSE IF changed = 0 THEN "quiet" ELSE "limit"
    /\ UNCHANGED <<variant, tpl, wb, fills, exprs, lib, geo_tabs, tab_values, active>>

CalculateEdited == ClickWith(TableEdits)

EditInit ==
    /\ \E t \in EditTemplates : Loaded(t)
    /\ lib = NoCall
    /\ NoTabs

EditNext == CalculateEdited \/ EvalCell \/ EndPass \/ SaveStore

EditSpec == EditInit /\ [][EditNext]_vars

(***************************************************************************)
(* The session on a template whose only formula cell refers to itself: the *)
(* input cell B2 = "=B2+1".                                                *)
(***************************************************************************)
\* What the user types into B2: nothing (the cell becomes absent), an int,
\* a float, a float that adding 1 leaves as it is.
SelfVals == {StrV(""), IntV(1), FloatV(5, 2), BigFloat}

\* The tables the user may have left: B2 edited or not, the rest untouched.
SelfEdits ==
    {[a \in TableData |-> IF a = "B2" THEN v ELSE NoEdit] : v \in SelfVals \cup {NoEdit}}

CalculateSelf == ClickWith(SelfEdits)

SelfInit ==
    /\ Loaded("self")
    /\ lib = NoCall
    /\ NoTabs

SelfNext == CalculateSelf \/ EvalCell \/ EndPass \/ SaveStore

SelfSpec == SelfInit /\ [][SelfNext]_vars

(***************************************************************************)
(* Properties of the recalculation engine.                                 *)
(***************************************************************************)
\* Inside recalc_block, or just after its return.
InRecalc == pc \in {"recalc", "returned"}

\* The cell the inner loop is about to evaluate raises.
NextCellRaises ==
    /\ pc = "recalc"
    /\ pos <= Len(formulas)
    /\ PyEval(variant, wb, "TEMPLATE", values, exprs[formulas[pos]]).t = "err"

\* Every formula cell's stored value equals (Python's ==) its formula
\* evaluated against the store.
IsFixedPoint ==
    \A k \in 1..Len(formulas) :
        PyEq(ValNew(variant, wb, values, exprs[formulas[k]]),
             StoreGet(values, formulas[k]))

\* The addresses an expression reads through CELL and RNG.
RECURSIVE Refs(_)
Refs(e) ==
    CASE e.op \in {"add", "div", "gt"} -> Refs(e.l) \cup Refs(e.r)
      [] e.op = "call" ->
           IF e.fn = "CELL" /\ Len(e.args) = 1 /\ e.args[1].op = "lit"
           THEN {_strip_dollars(e.args[1].v.s)}
           ELSE IF e.fn = "RNG" /\ Len(e.args) = 2 /\ e.args[1].op = "lit"
                   /\ e.args[2].op = "lit"
           THEN Range(_expand_range(e.args[1].v.s, e.args[2].v.s))
           ELSE UNION {Refs(e.args[k]) : k \in 1..Len(e.args)}
      [] OTHER -> {}

\* The formula cells of the invocation a formula cell reads.
DependsOn(a) == Refs(exprs[a]) \cap Range(formulas)

\* The formula cells reached from the set S in at most n steps of DependsOn.
RECURSIVE Reach(_, _)
Reach(S, n) ==
    IF n = 0 THEN S ELSE Reach(S \cup UNION {DependsOn(a) : a \in S}, n - 1)

\* No formula cell of the invocation depends on itself, directly or through
\* other formula cells.
Acyclic ==
    \A a \in Range(formulas) : a \notin Reach(DependsOn(a), Len(formulas))

\* The number of formula cells on the longest dependency chain that ends in
\* the cell a, for an acyclic formula set.
\* The greatest number of a finite non-empty set.
Most(S) == CHOOSE m \in S : \A x \in S : x <= m
RECURSIVE Depth(_)
Depth(a) == 1 + Most({0} \cup {Depth(b) : b \in DependsOn(a)})

\* The longest dependency chain of the invocation's formula cells.
MaxDepth == Most({0} \cup {Depth(a) : a \in Range(formulas)})

\* No formula cell holds NaN, the one value Python's != tells from itself.
NoNaN == \A a \in Range(formulas) : StoreGet(values, a).t # "nan"

\* C1: recalc_block always returns; it runs at most max_iters passes (20 in
\* app.py, 12 in app_0_geo.py), a further pass is started only after a pass
\* with a change, and it returns right after the first pass without a change.
RecalcReturns ==
    /\ [](InRecalc =>
            iter >= 1 /\ iter <= (IF variant = "app" THEN MaxItersApp ELSE MaxItersGeo))
    /\ [][(pc = "recalc" /\ pos > Len(formulas) /\ changed = 0) => pc' = "returned"]_vars
    /\ [][(pc = "recalc" /\ pc' = "recalc" /\ iter' # iter)
            => (changed > 0 /\ iter' = iter + 1)]_vars
    /\ (pc = "recalc") ~> (pc = "returned")

\* recalc_block has returned at the pass limit from a cyclic formula set
\* whose last pass still changed a value.
RecalcReturnsAtLimit ==
    /\ pc = "returned"
    /\ tpl = "cycle"
    /\ iter = MaxIters(variant)
    /\ changed > 0

\* C2: after recalc_block returns, every grey (input) address holds exactly
\* the value the handler wrote before the invocation.
InputsKept ==
    pc = "returned" => \A a \in GreyAddrs : StoreGet(values, a) = StoreGet(pre, a)

\* C3: a formula cell whose evaluation raises does not end recalc_block: the
\* loop goes on to the next cell of the same pass, the cell's stored value is
\* None whatever it held, no other address changes, and every formula cell
\* has been evaluated when the pass ends.
FailedCellBecomesNone ==
    /\ [][NextCellRaises =>
            /\ pc' = "recalc"
            /\ pos' = pos + 1
            /\ iter' = iter
            /\ StoreGet(values', formulas[pos]) = None
            /\ \A a \in (DOMAIN values \cup DOMAIN values') \ {formulas[pos]} :
                  StoreGet(values', a) = StoreGet(values, a)]_vars
    /\ []((InRecalc /\ pos > Len(formulas)) => seen = Range(formulas))

\* A cell that held a value has just raised and is None now, and the pass
\* has cells left to evaluate.
FailedCellLostItsValue ==
    /\ pc = "recalc"
    /\ last.raised
    /\ last.old # None
    /\ StoreGet(values, last.addr) = None
    /\ pos <= Len(formulas)

\* C4 as stated: for an acyclic formula set, when recalc_block returns each
\* formula cell's stored value equals its formula evaluated against the final
\* store.
AcyclicEndsAtFixedPoint == (pc = "returned" /\ Acyclic) => IsFixedPoint

\* C4, amended: for every acyclic formula set whose longest dependency chain
\* has fewer than max_iters formula cells and none of whose formula cells ends
\* as NaN, in any order and from any initial store, recalc_block returns after
\* a pass without a change and each formula cell's stored value equals its
\* formula evaluated against the final store; and whenever it returns after a
\* pass without a change the store is such a fixed point.
ShortChainsEndAtFixedPoint ==
    pc = "returned" =>
        /\ changed = 0 => IsFixedPoint
        /\ (Acyclic /\ NoNaN) =>
              (MaxDepth < MaxIters(variant) => (changed = 0 /\ IsFixedPoint))

\* A chain listed against its dependencies has converged in a second
\* invocation, over a store that held the first invocation's values.
ReverseChainConverged ==
    /\ pc = "returned"
    /\ tpl = "rchain"
    /\ calls = 2
    /\ changed = 0
    /\ iter > 2
    /\ StoreGet(values, "C2") # None

\* C5: with D1 = "=SUM(A1:A3)" and the literals A1 = 1, A2 = 2, A3 = 3, D1
\* holds 6 from the end of the first pass on.
SumOfRangeIsSix ==
    (tpl = "sum" /\ InRecalc /\ (iter > 1 \/ pos > Len(formulas)))
        => PyEq(StoreGet(values, "D1"), IntV(6))

\* C6 as stated: a second invocation on the store the first one left, with
\* no input changed, writes nothing.
SecondRunWritesNothing ==
    (InRecalc /\ rerun # "no") => (values = pre /\ changed = 0 /\ iter = 1)

\* C6, amended: a second invocation on the store left by an invocation that
\* ended on a pass without a change, with no input changed, writes nothing
\* and returns after its first pass.
SecondRunAfterQuietWritesNothing ==
    (InRecalc /\ rerun = "quiet") => (values = pre /\ changed = 0 /\ iter = 1)

\* A second invocation over an unchanged store has returned, with computed
\* values in the store.
SecondRunReturned ==
    /\ pc = "returned"
    /\ rerun = "quiet"
    /\ \E a \in Range(formulas) : StoreGet(values, a) # None

\* C7: recalc_block changes the store only at addresses of addr_list whose
\* template content is a formula, and the value computed from a cell's
\* formula is the value the store holds at that cell's address.
OnlyFormulaCellsChange ==
    InRecalc =>
        /\ \A a \in DOMAIN values \cup DOMAIN pre :
              StoreGet(values, a) # StoreGet(pre, a)
                 => (a \in Range(CalcCells(variant, ws)) /\ IsFormula(WsAt(ws, a)))
        /\ last.addr # "" =>
              /\ IsFormula(WsAt(ws, last.addr))
              /\ \/ StoreGet(values, last.addr) = last.new
                 \/ PyEq(StoreGet(values, last.addr), last.new)

\* recalc_block has returned with computed values, the literal cells and a
\* cell outside the working blocks as the handler left them.
FormulaCellsChanged ==
    /\ pc = "returned"
    /\ tpl = "sum"
    /\ variant = "app"
    /\ PyEq(StoreGet(values, "D2"), IntV(6))
    /\ StoreGet(pre, "D2") = None
    /\ StoreGet(values, "E5") = StrV("note")
    /\ StoreGet(values, "A1") = IntV(1)

\* A formula whose expression is the call IFERROR(x, fallback).
IsIferror(e) == e.op = "call" /\ e.fn = "IFERROR" /\ Len(e.args) = 2

\* C8: IFERROR(expr, fallback) gives fallback when expr fails: a cell whose
\* formula is IFERROR(expr, fallback) holds fallback's value after its
\* evaluation whenever expr raises.
IferrorGivesFallback ==
    (InRecalc /\ last.addr # "" /\ IsIferror(exprs[last.addr])
       /\ PyEval(variant, wb, "TEMPLATE", values, exprs[last.addr].args[1]).t = "err")
    => last.new = PyEval(variant, wb, "TEMPLATE", values, exprs[last.addr].args[2])

\* The first row of rows whose cell in column keycol of sheet is key, 0 when
\* there is none.
FirstMatchRow(sheet, rows, keycol, key) ==
    FirstPos({r \in rows : WsAt(sheet, a1(r, keycol)) = key})

\* What a lookup of key in the table should give: the cell of the first
\* matching row in the table's column ci, counted from 1; None without a
\* matching row.
Looked(sheet, rows, keycol, key, ci) ==
    IF FirstMatchRow(sheet, rows, keycol, key) = 0 THEN None
    ELSE WsAt(sheet, a1(FirstMatchRow(sheet, rows, keycol, key), keycol + ci - 1))

\* C9: for a key no row of the table A2:C4 holds, the cell
\* D1 = "=IFERROR(VLOOKUP(E2,D5,2),0)" (D5 naming the table) evaluates to 0.
IferrorOfMissIsZero ==
    (tpl = "lookup" /\ InRecalc /\ last.addr = "D1"
       /\ FirstMatchRow(ws, 2..4, 1, StoreGet(values, GeoAddr)) = 0)
    => PyEq(last.new, IntV(0))

\* C10: VLOOKUP gives the cell of the first matching row in the column
\* columnIndex of the table, and None when no row matches: E1 looks the city
\* up in A2:C4 with column 2, D2 with column 3, D3 in the sheet Ref.
VlookupFirstMatch ==
    (tpl = "lookup" /\ InRecalc) =>
        /\ last.addr = "E1" => last.new = Looked(ws, 2..4, 1, StoreGet(values, GeoAddr), 2)
        /\ last.addr = "D2" => last.new = Looked(ws, 2..4, 1, StoreGet(values, GeoAddr), 3)
        /\ last.addr = "D3" =>
              last.new = Looked(wb["Ref"], 1..2, 1, StoreGet(values, GeoAddr), 2)

\* The city of two rows has been looked up and the first row's value came
\* back.
VlookupTookFirstRow ==
    /\ tpl = "lookup"
    /\ pc = "recalc"
    /\ last.addr = "E1"
    /\ StoreGet(values, GeoAddr) = StrV("Moscow")
    /\ WsAt(ws, "A4") = StrV("Moscow")
    /\ last.new = IntV(120)

\* C11: when a row matches but columnIndex addresses a column outside the
\* table A2:C4 (D4 asks for column 4, A5 for column 0), the lookup gives None
\* and never a value read outside the range.
LookupOutsideRangeIsNone ==
    (tpl = "lookup" /\ InRecalc /\ last.addr \in {"D4", "A5"}
       /\ FirstMatchRow(ws, 2..4, 1, StoreGet(values, GeoAddr)) # 0)
    => last.new = None

(***************************************************************************)
(* Properties of the function library.                                     *)
(***************************************************************************)
\* What each item of the argument sets is as a number, in halves; the items
\* not listed are no numbers.
Half(v) ==
    CASE v = StrV("3") -> 6
      [] v = StrV("4,5") -> 9
      [] v = StrV(" 1 000 ") -> 2000
      [] v = IntV(2) -> 4
      [] v = IntV(-3) -> -6
      [] v = FloatV(1, 2) -> 1
IsNumber(v) ==
    v \in {StrV("3"), StrV("4,5"), StrV(" 1 000 "), IntV(2), IntV(-3), FloatV(1, 2)}

\* The numbers of a list of items, in halves, with the numbers of the lists
\* inside it at any depth, in order.
RECURSIVE Flat(_)
Flat(items) ==
    IF items = <<>> THEN <<>>
    ELSE (IF Head(items).t = "list" THEN Flat(Head(items).l)
          ELSE IF IsNumber(Head(items)) THEN <<Half(Head(items))>>
          ELSE <<>>) \o Flat(Tail(items))

RECURSIVE Total(_)
Total(nums) == IF nums = <<>> THEN 0 ELSE Head(nums) + Total(Tail(nums))

\* C12: SUM adds the numbers among its arguments, those inside nested lists
\* at any depth included, reading texts with spaces and a decimal comma,
\* ignores absent and non-numeric items, gives 0 when there is no number,
\* and gives 7.5 for the range values ["3", "4,5", "", "x"].
SumAddsTheNumbers ==
    (lib.fn = "SUM" /\ lib.done) =>
        /\ lib.out = FloatV(Total(Flat(lib.args)), 2)
        /\ lib.args = <<ListV(<<StrV("3"), StrV("4,5"), StrV(""), StrV("x")>>)>>
             => lib.out = FloatV(15, 2)

\* SUM has returned for a list holding numbers three lists deep.
SumOfNestedLists ==
    /\ lib.fn = "SUM"
    /\ lib.done
    /\ lib.args = <<StrV(" 1 000 "),
                    ListV(<<StrV("4,5"), ListV(<<IntV(2), ListV(<<IntV(-3)>>)>>)>>)>>
    /\ lib.out = FloatV(2007, 2)

\* C13: MAX gives the largest number among its arguments, those inside
\* nested lists at any depth included, and 0 when there is no number.
MaxIsTheLargest ==
    (lib.fn = "MAX" /\ lib.done) =>
        lib.out = (IF Flat(lib.args) = <<>> THEN FloatV(0, 1)
                   ELSE FloatV(Most(Range(Flat(lib.args))), 2))

\* ---------------------------------------------------------------------------
\* Properties of the session, continued
\* ---------------------------------------------------------------------------

\* C14: the formula =IF(true,"A","B") (cell D3) evaluates to "A" and the
\* formula =IF(0,"A","B") (cell A4) evaluates to "B".
IfPicksItsBranch ==
    (tpl = "iferror" /\ InRecalc)
    => /\ last.addr = "D3" => last.new = StrV("A")
       /\ last.addr = "A4" => last.new = StrV("B")

\* ---------------------------------------------------------------------------
\* Properties of the function library, continued
\* ---------------------------------------------------------------------------

\* The string form of the values COUNTIF is called with, written down item by
\* item.
StrForm(v) ==
    CASE v = IntV(1) -> "1"
      [] v = FloatV(1, 1) -> "1.0"
      [] v = None -> "None"
      [] v = BoolV(TRUE) -> "True"
      [] OTHER -> v.s

\* C15 (app.py): COUNTIF(values, criterion) is the number of items of values,
\* a scalar counting as a list of one item, whose string form is exactly the
\* string form of criterion.
CountifCountsEqualStrings ==
    (lib.fn = "COUNTIF" /\ lib.done /\ variant = "app")
    => LET items == IF lib.args[1].t = "list" THEN lib.args[1].l ELSE <<lib.args[1]>>
           hits == {k \in 1..Len(items) : StrForm(items[k]) = StrForm(lib.args[2])}
       IN lib.out = IntV(Cardinality(hits))

\* COUNTIF([1, "1", 1], 1) has counted the text "1" with the two numbers 1.
CountifCountedTextAndNumber ==
    /\ variant = "app"
    /\ lib.fn = "COUNTIF"
    /\ lib.done
    /\ lib.args = <<ListV(<<IntV(1), StrV("1"), IntV(1)>>), IntV(1)>>
    /\ lib.out = IntV(3)

\* C16: coerce_float is total: for every input it returns a number or None
\* and never raises.
CoerceNeverRaises ==
    (lib.fn = "coerce_float" /\ lib.done) => lib.out.t \in {"float", "none", "nan"}

\* The row and the column of each corner, and the name of the cell in row r
\* and column c, written down for the corners of ExpandArgs.
Place ==
    [x \in Corners |->
        CASE x = "A1" -> <<1, 1>> [] x = "B1" -> <<1, 2>> [] x = "C1" -> <<1, 3>>
          [] x = "A2" -> <<2, 1>> [] x = "B2" -> <<2, 2>> [] x = "C2" -> <<2, 3>>
          [] x = "A3" -> <<3, 1>> [] x = "B3" -> <<3, 2>> [] x = "C3" -> <<3, 3>>
          [] x = "$C$1" -> <<1, 3>> [] x = "$B3" -> <<3, 2>> [] x = "AA2" -> <<2, 27>>]
CellName(rc) ==
    (IF rc[2] = 27 THEN "AA" ELSE SubSeq("ABCDEFGHIJKLMNOPQRSTUVWXYZ", rc[2], rc[2]))
    \o ToString(rc[1])

\* C17: _expand_range(a, b) lists each address of the rectangle spanned by a
\* and b once, row by row from the top and from left to right within a row,
\* and covers the same set of addresses as _expand_range(b, a).
ExpandIsRowMajor ==
    (lib.fn = "_expand_range" /\ lib.done)
    => LET p == Place[lib.args[1].s]
           q == Place[lib.args[2].s]
           rect == {rc \in (1..3) \X (1..27) :
                       /\ (p[1] <= rc[1] /\ rc[1] <= q[1]) \/ (q[1] <= rc[1] /\ rc[1] <= p[1])
                       /\ (p[2] <= rc[2] /\ rc[2] <= q[2]) \/ (q[2] <= rc[2] /\ rc[2] <= p[2])}
           out == lib.out.l
           At(k) == CHOOSE rc \in rect : CellName(rc) = out[k].s
       IN /\ lib.out.t = "list"
          /\ Len(out) = Cardinality(rect)
          /\ {out[k].s : k \in 1..Len(out)} = {CellName(rc) : rc \in rect}
          /\ \A k \in 1..(Len(out) - 1) :
                \/ At(k)[1] < At(k + 1)[1]
                \/ At(k)[1] = At(k + 1)[1] /\ At(k)[2] < At(k + 1)[2]
          /\ {out[k].s : k \in 1..Len(out)}
                = Range(_expand_range(lib.args[2].s, lib.args[1].s))

\* _expand_range("C2", "A1"), the bottom-right corner given first, has listed
\* A1, B1, C1, A2, B2, C2.
ExpandedFromLastCorner ==
    /\ lib.fn = "_expand_range"
    /\ lib.done
    /\ lib.args = <<StrV("C2"), StrV("A1")>>
    /\ lib.out = ListV(<<StrV("A1"), StrV("B1"), StrV("C1"),
                         StrV("A2"), StrV("B2"), StrV("C2")>>)

\* ---------------------------------------------------------------------------
\* Properties of the session: addresses that do not parse
\* ---------------------------------------------------------------------------

\* B4 = "=VLOOKUP(A2,D6,2)" has been evaluated with the range text "A:B2" in
\* D6, whose first corner has no row number.
MetMalformedAddress ==
    /\ tpl = "err"
    /\ last.addr = "B4"
    /\ StoreGet(values, "D6") = StrV("A:B2")

RecalcKeepsOtherTabs ==
    [][active # 0
       => \A j \in 1..Len(geo_tabs) :
             j # active => tab_values'[geo_tabs[j]] = tab_values[geo_tabs[j]]]_vars

\* ---------------------------------------------------------------------------
\* Properties of _transform_formula
\* ---------------------------------------------------------------------------

\* _transform_formula has returned.
Transformed == lib.fn = "_transform_formula" /\ lib.done

\* The double-quoted literals of the formula texts, written down text by
\* text.
LiteralsOf(t) ==
    CASE t = "=IF(A1>0,\"yes\",\"no\")" -> <<"\"yes\"", "\"no\"">>
      [] t = "=IF(B2>1,\"A1:B2\",\"\")" -> <<"\"A1:B2\"", "\"\"">>
      [] t = "=\"A1\"" -> <<"\"A1\"">>
      [] t = "=\"x\"+\"y\"" -> <<"\"x\"", "\"y\"">>
      [] OTHER -> <<>>

\* C21: every double-quoted literal of the formula stands unchanged in the
\* result of _transform_formula, and no placeholder text is left in it.
TransformKeepsLiterals ==
    Transformed
    => LET lits == LiteralsOf(lib.args[1].s)
       IN /\ \A k \in 1..Len(lits) : Find(lib.out.s, lits[k], 1) > 0
          /\ Find(lib.out.s, "STR", 1) = 0

\* What the rewriting of addresses is to give for the formula texts made of
\* ranges and bare addresses: RNG('a','b') for a range, CELL('a') for an
\* address outside a range.
Rewritten ==
    [t \in {"=SUM(A1:A3)", "=$A$1:$B$2", "=A1 : B2", "=A1+B2", "=SUM(A1:A3)+C1", " =C3 "} |->
        CASE t = "=SUM(A1:A3)" -> "SUM(RNG('A1','A3'))"
          [] t = "=$A$1:$B$2" -> "RNG('A1','B2')"
          [] t = "=A1 : B2" -> "RNG('A1','B2')"
          [] t = "=A1+B2" -> "CELL('A1')+CELL('B2')"
          [] t = "=SUM(A1:A3)+C1" -> "SUM(RNG('A1','A3'))+CELL('C1')"
          [] OTHER -> "CELL('C3')"]

\* C22: each range a:b becomes the one call RNG('a','b') on the two
\* addresses without their dollars, each address outside a range the one
\* call CELL('a'); the corners of a range are not rewritten again.
RangesAndCellsRewrittenOnce ==
    (Transformed /\ lib.args[1].s \in DOMAIN Rewritten)
    => lib.out.s = Rewritten[lib.args[1].s]

\* The formula texts in which letters and digits stand inside a longer name
\* or a number, and what the transform is to make of them.
LongerTokens ==
    [t \in {"=LOG10(A1)", "=ABCD1", "=1E5", "=X12Y"} |->
        CASE t = "=LOG10(A1)" -> "LOG10(CELL('A1'))"
          [] t = "=ABCD1" -> "ABCD1"
          [] t = "=1E5" -> "1E5"
          [] OTHER -> "X12Y"]

\* C23: letters followed by digits that are part of a longer identifier,
\* function name or number (LOG10, ABCD1, X12Y, the exponent of 1E5) are not
\* rewritten into a cell lookup.
OnlyWholeAddressesRewritten ==
    (Transformed /\ lib.args[1].s \in DOMAIN LongerTokens)
    => lib.out.s = LongerTokens[lib.args[1].s]

\* The part of each formula text that the transform does not support: a
\* function outside SUM, IF, IFERROR, MAX, COUNTIF and VLOOKUP, the operator
\* <>, half a range.
UnsupportedPart ==
    [t \in {"=SUMPRODUCT(A2)", "=NA()", "=A1<>B1", "=A2:B", "=LOG10(A1)"} |->
        CASE t = "=SUMPRODUCT(A2)" -> "SUMPRODUCT("
          [] t = "=NA()" -> "NA()"
          [] t = "=A1<>B1" -> "<>"
          [] t = "=A2:B" -> ":B"
          [] OTHER -> "LOG10("]

\* C24: _transform_formula does not fail on a formula with unsupported
\* syntax: it returns a text in which the unsupported part stands
\* unchanged.
UnsupportedPassedThrough ==
    (Transformed /\ lib.args[1].s \in DOMAIN UnsupportedPart)
    => /\ lib.out.t = "str"
       /\ Find(lib.out.s, UnsupportedPart[lib.args[1].s], 1) > 0

\* ---------------------------------------------------------------------------
\* Properties of VLOOKUP's matching
\* ---------------------------------------------------------------------------

\* VLOOKUP(v, "Keys!A1:B5", 2) has returned.
LookedUp == lib.fn = "VLOOKUP" /\ lib.done

\* The string forms of the five keys of the sheet "Keys" (row 3 is empty),
\* as they are and without the spaces around them, and those of the lookup
\* values; an absent lookup value is "None" as it is, and the empty text by
\* the rule of the code.
KeyText == <<"Moscow", " Tula ", "None", "5", "5.0">>
KeyTrimmed == <<"Moscow", "Tula", "None", "5", "5.0">>
LookupText(v) ==
    CASE v = None -> "None"
      [] v = IntV(5) -> "5"
      [] v = FloatV(5, 1) -> "5.0"
      [] OTHER -> v.s
LookupTrimmed(v) ==
    CASE v = None -> ""
      [] v = StrV(" Moscow") -> "Moscow"
      [] v = StrV(" Tula ") -> "Tula"
      [] v = StrV(" 5 ") -> "5"
      [] OTHER -> LookupText(v)

\* Column B of the first row whose key text is the given text (column B
\* holds the row's number), None when no row has it.
FirstRowWith(keys, text) ==
    LET rows == {k \in 1..Len(keys) : keys[k] = text}
    IN IF rows = {} THEN None ELSE IntV(CHOOSE k \in rows : \A j \in rows : k <= j)

\* C25 as claimed: a row matches exactly when the string form of its key is
\* the string form of the lookup value, spaces included, an absent lookup
\* value and an empty key cell being compared by their string form "None".
LookupMatchesExactText ==
    LookedUp => lib.out = FirstRowWith(KeyText, LookupText(lib.args[1]))

\* C25, amended: a row matches exactly when the string form of its key
\* without the spaces around it is the string form of the lookup value
\* without the spaces around it; an absent lookup value counts as the empty
\* text, an empty key cell as the text "None".
LookupMatchesTrimmedText ==
    LookedUp => lib.out = FirstRowWith(KeyTrimmed, LookupTrimmed(lib.args[1]))

\* The lookup of " 5 " has matched the int key 5 of row 4.
LookupTrimmedItsValue ==
    /\ LookedUp
    /\ lib.args[1] = StrV(" 5 ")
    /\ lib.out = IntV(4)
(***************************************************************************)
(* The lookup and the value store.                                         *)
(***************************************************************************)
\* C26: a lookup in a table of the current sheet gives the store's value of
\* the cell it finds: E1 = "=VLOOKUP(E2,D5,2)" looks the city up in A2:C4,
\* Moscow is in row 2, and the result is what the store holds for B2, the
\* user's edit of that input cell included.
LookupReadsTheStore ==
    (tpl = "lookup" /\ InRecalc /\ last.addr = "E1"
       /\ StoreGet(values, GeoAddr) = StrV("Moscow"))
    => last.new = StoreGet(values, "B2")
(***************************************************************************)
(* The order of evaluation.                                                *)
(***************************************************************************)
\* The place of an address's first occurrence in addr_list.
FirstAt(addr_list, a) ==
    CHOOSE i \in 1..Len(addr_list) :
        addr_list[i] = a /\ \A j \in 1..(i - 1) : addr_list[j] # a

\* The formula cells of addr_list that occur in it before a does.
FormulasBefore(addr_list, a) ==
    {b \in Range(addr_list) :
        IsFormula(WsAt(ws, b)) /\ FirstAt(addr_list, b) < FirstAt(addr_list, a)}

\* C27: in every pass of one invocation the k-th evaluation is of the same
\* cell, the k-th formula cell of addr_list in the order of first
\* occurrence; and a formula evaluated later in a pass reads what an earlier
\* one wrote in that pass: in the template "chain" D2 = "=C2+1" becomes the
\* value the store holds for C2, written just before, plus one.
SameOrderEveryPass ==
    [][(pc = "recalc" /\ pos' = pos + 1) =>
          /\ last'.addr \in Range(CalcCells(variant, ws))
          /\ IsFormula(WsAt(ws, last'.addr))
          /\ Cardinality(FormulasBefore(CalcCells(variant, ws), last'.addr)) = pos - 1
          /\ seen = FormulasBefore(CalcCells(variant, ws), last'.addr)
          /\ (tpl = "chain" /\ last'.addr = "D2" /\ StoreGet(values, "C2").t = "int")
             => /\ "C2" \in seen
                /\ last'.new = IntV(StoreGet(values, "C2").n + 1)]_vars

\* D2 has been evaluated after C2 and has read the value C2 was given in
\* this invocation.
LaterCellReadEarlierWrite ==
    /\ tpl = "chain"
    /\ pc = "recalc"
    /\ last.addr = "D2"
    /\ "C2" \in seen
    /\ StoreGet(values, "C2") # StoreGet(pre, "C2")
    /\ StoreGet(values, "C2").t = "int"
    /\ last.new = IntV(StoreGet(values, "C2").n + 1)
(***************************************************************************)
(* The user's edits and the store.                                         *)
(***************************************************************************)
\* The cells of each template's main table that are classified as input.
InputCells == [t \in EditTemplates |-> IF t = "sum" THEN {"B2"} ELSE {"B3"}]

\* C28: the click's writes change the store only at the main table's input
\* cells and at the parameter cells; what the user typed at another cell of
\* the table does not reach the store.
EditsReachOnlyInputs ==
    [][(pc = "idle" /\ pc' = "recalc") =>
          /\ \A a \in (DOMAIN values \cup DOMAIN values')
                        \ (InputCells[tpl] \cup {GeoAddr, DaysAddr}) :
                a \in DOMAIN values /\ a \in DOMAIN values' /\ values'[a] = values[a]
          /\ \A a \in TableData \ InputCells[tpl] :
                edited_df'[a] # NoEdit => StoreGet(values', a) = StoreGet(values, a)]_vars

\* The user typed 1 into the derived cell D2 = "=A3+1" and pressed
\* Calculate: the store handed to recalc_block does not hold the 1.
DerivedEditDropped ==
    /\ tpl = "rchain"
    /\ pc = "recalc"
    /\ iter = 1
    /\ pos = 1
    /\ edited_df # NoDf
    /\ edited_df["D2"] = IntV(1)
    /\ StoreGet(values, "D2") # IntV(1)
(***************************************************************************)
(* The classification of cells by their fill.                              *)
(***************************************************************************)
\* A cell's fill has been classified.
StyleRead == lib.done /\ lib.fn = "read_block_style"

\* C29: no fill is classified both as input and as derived: the grey mask
\* and the blue mask are never both true for a cell, so a cell is input,
\* derived, or (neither mask) structural.
NeverInputAndDerived ==
    StyleRead => ~(lib.out.l[1] = BoolV(TRUE) /\ lib.out.l[2] = BoolV(TRUE))

\* A solid fill of a known blue, which is neither white nor empty, has been
\* classified as derived and not as input.
BlueIsDerivedOnly ==
    /\ StyleRead
    /\ lib.args = <<StrV("solid"), StrV("rgb"), StrV("FF9DC3E6")>>
    /\ lib.out.l = <<BoolV(FALSE), BoolV(TRUE)>>
(***************************************************************************)
(* The formula cell that refers to itself.                                 *)
(***************************************************************************)
\* recalc_block has returned in the template of the self-referencing cell.
SelfReturned == tpl = "self" /\ pc = "returned"

\* The pass limit of the file that runs.
PassLimit == IF variant = "app" THEN MaxItersApp ELSE MaxItersGeo

\* C30 as stated: for B2 = "=B2+1", when B2 is absent at invocation
\* recalc_block stops after its first pass with B2 still absent; when B2
\* holds a number n it runs exactly max_iters passes and leaves n + max_iters.
SelfRefRunsToLimit ==
    SelfReturned =>
        /\ StoreGet(pre, "B2") = None => (iter = 1 /\ StoreGet(values, "B2") = None)
        /\ StoreGet(pre, "B2").t \in {"int", "float", "bigfloat"} =>
              /\ iter = PassLimit
              /\ StoreGet(values, "B2") = PyAdd(StoreGet(pre, "B2"), IntV(PassLimit))

\* C30, amended: an absent B2 ends the invocation after the first pass,
\* still absent; an int or a float that every addition of 1 changes runs
\* max_iters passes and ends as n + max_iters; a float so large that adding 1
\* gives it back ends the invocation after the first pass, unchanged.
SelfRefCountsWhileItChanges ==
    SelfReturned =>
        /\ StoreGet(pre, "B2") = None => (iter = 1 /\ StoreGet(values, "B2") = None)
        /\ StoreGet(pre, "B2").t = "int" =>
              /\ iter = PassLimit
              /\ StoreGet(values, "B2") = IntV(StoreGet(pre, "B2").n + PassLimit)
        /\ StoreGet(pre, "B2").t = "float" =>
              /\ iter = PassLimit
              /\ StoreGet(values, "B2")
                   = FloatV(StoreGet(pre, "B2").n + PassLimit * StoreGet(pre, "B2").d,
                            StoreGet(pre, "B2").d)
        /\ StoreGet(pre, "B2") = BigFloat =>
              (iter = 1 /\ StoreGet(values, "B2") = BigFloat)

\* app.py has run its 20 passes on B2 = 1 and left 21.
SelfRefReachedLimit ==
    /\ SelfReturned
    /\ variant = "app"
    /\ StoreGet(pre, "B2") = IntV(1)
    /\ iter = MaxItersApp
    /\ StoreGet(values, "B2") = IntV(21)

====
